---- MODULE Spec2Model ----
(***************************************************************************)
(* Financial-Insights: the aggregation pipeline (agent/agent.py) over the  *)
(* three tools of mcp/ (currency, stock market, exchange location).        *)
(*                                                                         *)
(* Text is modelled as a sequence of glyphs (TLA+ strings).  User input,   *)
(* the keys of the static tables and the "Primary Exchange:" marker are    *)
(* spelled one character per glyph; the words of the tables' values and    *)
(* the other literals of the format templates are one glyph each.  Python  *)
(* dicts whose iteration order is observed are sequences of key/value      *)
(* pairs; money amounts are integers (rates in 1/10000, prices in 1/100).  *)
(* A Python call is an outcome record: [raised, val, net] or               *)
(* [raised, exc, net], net being the external requests it performed.       *)
(***************************************************************************)
EXTENDS Integers, Sequences, FiniteSets, TLC

VARIABLES
    api_key,            \* EXCHANGERATE_API_KEY is configured (currency_tools.py:18)
    maps_key,           \* GOOGLE_MAPS_API_KEY is configured (maps_tools.py:17, agent.py:138)
    pc,                 \* position of the agent inside query / get_financial_info
    entry,              \* which entry point is running
    country,            \* the country string handed to _call_tools
    results,            \* the results dict of _call_tools
    intermediate_steps, \* FinancialAgent.intermediate_steps
    ret,                \* what the last entry point returned to its caller
    calls,              \* the tool calls of the current run, in order: tool, input, outcome
    net,                \* external requests performed during the current run
    failures,           \* the failures that happened inside the current run
    tool                \* the last direct tool call: operation, arguments, outcome

vars == <<api_key, maps_key, pc, entry, country, results, intermediate_steps,
          ret, calls, net, failures, tool>>

\* ------------------------------------------------------------------ bounds

\* how many of the four requested target currencies a "success" response of
\* the rate API may lack
MaxMissing == 1

\* the longest price history a ticker fetch returns
MaxCloses == 2

\* ------------------------------------------------------------------ Python

Range(s) == {s[i] : i \in DOMAIN s}

SetMin(S) == CHOOSE m \in S : \A k \in S : m <= k

SetMax(S) == CHOOSE m \in S : \A k \in S : m >= k

UpperLetters ==
    <<"A", "B", "C", "D", "E", "F", "G", "H", "I", "J", "K", "L", "M",
      "N", "O", "P", "Q", "R", "S", "T", "U", "V", "W", "X", "Y", "Z">>

LowerLetters ==
    <<"a", "b", "c", "d", "e", "f", "g", "h", "i", "j", "k", "l", "m",
      "n", "o", "p", "q", "r", "s", "t", "u", "v", "w", "x", "y", "z">>

IsUpper(c) == c \in Range(UpperLetters)

IsLower(c) == c \in Range(LowerLetters)

IsCased(c) == IsUpper(c) \/ IsLower(c)

IsSpace(c) == c \in {" ", "\n", "\t"}

ToLowerCh(c) ==
    IF IsUpper(c)
    THEN LowerLetters[CHOOSE i \in DOMAIN UpperLetters : UpperLetters[i] = c]
    ELSE c

ToUpperCh(c) ==
    IF IsLower(c)
    THEN UpperLetters[CHOOSE i \in DOMAIN LowerLetters : LowerLetters[i] = c]
    ELSE c

\* str.lower()
lower(s) == [i \in DOMAIN s |-> ToLowerCh(s[i])]

\* str.strip()
strip(s) ==
    LET keep == {i \in DOMAIN s : ~IsSpace(s[i])}
    IN  IF keep = {} THEN <<>> ELSE SubSeq(s, SetMin(keep), SetMax(keep))

\* str.title(): a cased character is upper-cased when it starts a run of
\* cased characters and lower-cased inside one
title(s) ==
    [i \in DOMAIN s |->
        IF i > 1 /\ IsCased(s[i - 1]) THEN ToLowerCh(s[i]) ELSE ToUpperCh(s[i])]

\* sub in s
Contains(s, sub) ==
    \E i \in 0..(Len(s) - Len(sub)) : SubSeq(s, i + 1, i + Len(sub)) = sub

StartsWith(s, sub) == Len(sub) <= Len(s) /\ SubSeq(s, 1, Len(sub)) = sub

\* str.replace(old, new): every occurrence, left to right, not overlapping
RECURSIVE replace(_, _, _)
replace(s, old, new) ==
    IF s = <<>> \/ old = <<>> THEN s
    ELSE IF StartsWith(s, old)
         THEN new \o replace(SubSeq(s, Len(old) + 1, Len(s)), old, new)
         ELSE <<Head(s)>> \o replace(Tail(s), old, new)

\* str.split("\n")
RECURSIVE split(_)
split(s) ==
    IF \A i \in DOMAIN s : s[i] # "\n" THEN <<s>>
    ELSE LET n == SetMin({i \in DOMAIN s : s[i] = "\n"})
         IN  <<SubSeq(s, 1, n - 1)>> \o split(SubSeq(s, n + 1, Len(s)))

\* "key in d" and d[key] for a dict kept as a sequence of [k, v] pairs
HasKey(d, key) == \E i \in DOMAIN d : d[i].k = key

Get(d, key) == d[CHOOSE i \in DOMAIN d : d[i].k = key].v

\* d[key] = value: a new key goes last, an old key keeps its place
Put(d, key, value) ==
    IF HasKey(d, key)
    THEN [i \in DOMAIN d |-> IF d[i].k = key THEN [k |-> key, v |-> value] ELSE d[i]]
    ELSE Append(d, [k |-> key, v |-> value])

Keys(d) == [i \in DOMAIN d |-> d[i].k]

\* the outcome of a Python call
Ret(v, requests) == [raised |-> FALSE, val |-> v, net |-> requests]

Raise(e, requests) == [raised |-> TRUE, exc |-> e, net |-> requests]

\* a number held in a dict next to strings, and a string held next to numbers
Num(n) == [num |-> n]

Text(s) == [str |-> s]

IsNumber(v) == "num" \in DOMAIN v

\* f"{rate:.4f}" of a rate held in 1/10000
Fmt4(n) ==
    LET a == IF n < 0 THEN -n ELSE n
        f == a % 10000
    IN  (IF n < 0 THEN <<"-">> ELSE <<>>)
        \o <<ToString(a \div 10000), ".", ToString(f \div 1000),
             ToString((f \div 100) % 10), ToString((f \div 10) % 10), ToString(f % 10)>>

\* ------------------------------------------------------------------ static tables

country_currency_map ==
       (<<"j", "a", "p", "a", "n">> :> [code |-> "JPY", name |-> <<"Japanese", " ", "Yen">>])
    @@ (<<"i", "n", "d", "i", "a">> :> [code |-> "INR", name |-> <<"Indian", " ", "Rupee">>])
    @@ (<<"u", "n", "i", "t", "e", "d", " ", "s", "t", "a", "t", "e", "s">> :> [code |-> "USD", name |-> <<"US", " ", "Dollar">>])
    @@ (<<"u", "s", "a">> :> [code |-> "USD", name |-> <<"US", " ", "Dollar">>])
    @@ (<<"u", "n", "i", "t", "e", "d", " ", "k", "i", "n", "g", "d", "o", "m">> :> [code |-> "GBP", name |-> <<"British", " ", "Pound", " ", "Sterling">>])
    @@ (<<"u", "k">> :> [code |-> "GBP", name |-> <<"British", " ", "Pound", " ", "Sterling">>])
    @@ (<<"s", "o", "u", "t", "h", " ", "k", "o", "r", "e", "a">> :> [code |-> "KRW", name |-> <<"South", " ", "Korean", " ", "Won">>])
    @@ (<<"k", "o", "r", "e", "a">> :> [code |-> "KRW", name |-> <<"South", " ", "Korean", " ", "Won">>])
    @@ (<<"c", "h", "i", "n", "a">> :> [code |-> "CNY", name |-> <<"Chinese", " ", "Yuan">>])
    @@ (<<"g", "e", "r", "m", "a", "n", "y">> :> [code |-> "EUR", name |-> <<"Euro">>])
    @@ (<<"f", "r", "a", "n", "c", "e">> :> [code |-> "EUR", name |-> <<"Euro">>])
    @@ (<<"i", "t", "a", "l", "y">> :> [code |-> "EUR", name |-> <<"Euro">>])
    @@ (<<"s", "p", "a", "i", "n">> :> [code |-> "EUR", name |-> <<"Euro">>])
    @@ (<<"c", "a", "n", "a", "d", "a">> :> [code |-> "CAD", name |-> <<"Canadian", " ", "Dollar">>])
    @@ (<<"a", "u", "s", "t", "r", "a", "l", "i", "a">> :> [code |-> "AUD", name |-> <<"Australian", " ", "Dollar">>])
    @@ (<<"b", "r", "a", "z", "i", "l">> :> [code |-> "BRL", name |-> <<"Brazilian", " ", "Real">>])
    @@ (<<"m", "e", "x", "i", "c", "o">> :> [code |-> "MXN", name |-> <<"Mexican", " ", "Peso">>])
    @@ (<<"s", "w", "i", "t", "z", "e", "r", "l", "a", "n", "d">> :> [code |-> "CHF", name |-> <<"Swiss", " ", "Franc">>])
    @@ (<<"s", "i", "n", "g", "a", "p", "o", "r", "e">> :> [code |-> "SGD", name |-> <<"Singapore", " ", "Dollar">>])
    @@ (<<"h", "o", "n", "g", " ", "k", "o", "n", "g">> :> [code |-> "HKD", name |-> <<"Hong", " ", "Kong", " ", "Dollar">>])
    @@ (<<"r", "u", "s", "s", "i", "a">> :> [code |-> "RUB", name |-> <<"Russian", " ", "Ruble">>])
    @@ (<<"s", "o", "u", "t", "h", " ", "a", "f", "r", "i", "c", "a">> :> [code |-> "ZAR", name |-> <<"South", " ", "African", " ", "Rand">>])
    @@ (<<"t", "u", "r", "k", "e", "y">> :> [code |-> "TRY", name |-> <<"Turkish", " ", "Lira">>])
    @@ (<<"s", "a", "u", "d", "i", " ", "a", "r", "a", "b", "i", "a">> :> [code |-> "SAR", name |-> <<"Saudi", " ", "Riyal">>])
    @@ (<<"u", "a", "e">> :> [code |-> "AED", name |-> <<"UAE", " ", "Dirham">>])
    @@ (<<"t", "h", "a", "i", "l", "a", "n", "d">> :> [code |-> "THB", name |-> <<"Thai", " ", "Baht">>])
    @@ (<<"m", "a", "l", "a", "y", "s", "i", "a">> :> [code |-> "MYR", name |-> <<"Malaysian", " ", "Ringgit">>])
    @@ (<<"i", "n", "d", "o", "n", "e", "s", "i", "a">> :> [code |-> "IDR", name |-> <<"Indonesian", " ", "Rupiah">>])
    @@ (<<"p", "h", "i", "l", "i", "p", "p", "i", "n", "e", "s">> :> [code |-> "PHP", name |-> <<"Philippine", " ", "Peso">>])
    @@ (<<"v", "i", "e", "t", "n", "a", "m">> :> [code |-> "VND", name |-> <<"Vietnamese", " ", "Dong">>])
    @@ (<<"p", "o", "l", "a", "n", "d">> :> [code |-> "PLN", name |-> <<"Polish", " ", "Zloty">>])
    @@ (<<"s", "w", "e", "d", "e", "n">> :> [code |-> "SEK", name |-> <<"Swedish", " ", "Krona">>])
    @@ (<<"n", "o", "r", "w", "a", "y">> :> [code |-> "NOK", name |-> <<"Norwegian", " ", "Krone">>])
    @@ (<<"d", "e", "n", "m", "a", "r", "k">> :> [code |-> "DKK", name |-> <<"Danish", " ", "Krone">>])
    @@ (<<"n", "e", "w", " ", "z", "e", "a", "l", "a", "n", "d">> :> [code |-> "NZD", name |-> <<"New", " ", "Zealand", " ", "Dollar">>])
    @@ (<<"a", "r", "g", "e", "n", "t", "i", "n", "a">> :> [code |-> "ARS", name |-> <<"Argentine", " ", "Peso">>])
    @@ (<<"c", "h", "i", "l", "e">> :> [code |-> "CLP", name |-> <<"Chilean", " ", "Peso">>])
    @@ (<<"c", "o", "l", "o", "m", "b", "i", "a">> :> [code |-> "COP", name |-> <<"Colombian", " ", "Peso">>])
    @@ (<<"e", "g", "y", "p", "t">> :> [code |-> "EGP", name |-> <<"Egyptian", " ", "Pound">>])
    @@ (<<"i", "s", "r", "a", "e", "l">> :> [code |-> "ILS", name |-> <<"Israeli", " ", "Shekel">>])
    @@ (<<"p", "a", "k", "i", "s", "t", "a", "n">> :> [code |-> "PKR", name |-> <<"Pakistani", " ", "Rupee">>])
    @@ (<<"b", "a", "n", "g", "l", "a", "d", "e", "s", "h">> :> [code |-> "BDT", name |-> <<"Bangladeshi", " ", "Taka">>])
    @@ (<<"n", "i", "g", "e", "r", "i", "a">> :> [code |-> "NGN", name |-> <<"Nigerian", " ", "Naira">>])
    @@ (<<"k", "e", "n", "y", "a">> :> [code |-> "KES", name |-> <<"Kenyan", " ", "Shilling">>])

stock_exchanges ==
       (<<"j", "a", "p", "a", "n">> :> [
        exchanges |-> <<<<"Tokyo", " ", "Stock", " ", "Exchange", " ", "(", "TSE", ")">>, <<"Osaka", " ", "Exchange", " ", "(", "OSE", ")">>>>,
        indices |-> <<[name |-> <<"Nikkei", " ", "225">>, symbol |-> "^N225"], [name |-> <<"TOPIX">>, symbol |-> "^TOPX"], [name |-> <<"JPX-Nikkei", " ", "400">>, symbol |-> "^JPN400"]>>,
        primary_exchange |-> <<"Tokyo", " ", "Stock", " ", "Exchange">>,
        hq_location |-> <<"Tokyo", ",", " ", "Japan">>])
    @@ (<<"i", "n", "d", "i", "a">> :> [
        exchanges |-> <<<<"National", " ", "Stock", " ", "Exchange", " ", "(", "NSE", ")">>, <<"Bombay", " ", "Stock", " ", "Exchange", " ", "(", "BSE", ")">>>>,
        indices |-> <<[name |-> <<"NIFTY", " ", "50">>, symbol |-> "^NSEI"], [name |-> <<"SENSEX">>, symbol |-> "^BSESN"], [name |-> <<"NIFTY", " ", "Bank">>, symbol |-> "^NSEBANK"]>>,
        primary_exchange |-> <<"National", " ", "Stock", " ", "Exchange", " ", "of", " ", "India">>,
        hq_location |-> <<"Mumbai", ",", " ", "Maharashtra", ",", " ", "India">>])
    @@ (<<"u", "n", "i", "t", "e", "d", " ", "s", "t", "a", "t", "e", "s">> :> [
        exchanges |-> <<<<"New", " ", "York", " ", "Stock", " ", "Exchange", " ", "(", "NYSE", ")">>, <<"NASDAQ">>, <<"CBOE">>>>,
        indices |-> <<[name |-> <<"S&P", " ", "500">>, symbol |-> "^GSPC"], [name |-> <<"Dow", " ", "Jones">>, symbol |-> "^DJI"], [name |-> <<"NASDAQ", " ", "Composite">>, symbol |-> "^IXIC"], [name |-> <<"Russell", " ", "2000">>, symbol |-> "^RUT"]>>,
        primary_exchange |-> <<"New", " ", "York", " ", "Stock", " ", "Exchange">>,
        hq_location |-> <<"New", " ", "York", ",", " ", "NY", ",", " ", "USA">>])
    @@ (<<"u", "s", "a">> :> [
        exchanges |-> <<<<"New", " ", "York", " ", "Stock", " ", "Exchange", " ", "(", "NYSE", ")">>, <<"NASDAQ">>, <<"CBOE">>>>,
        indices |-> <<[name |-> <<"S&P", " ", "500">>, symbol |-> "^GSPC"], [name |-> <<"Dow", " ", "Jones">>, symbol |-> "^DJI"], [name |-> <<"NASDAQ", " ", "Composite">>, symbol |-> "^IXIC"], [name |-> <<"Russell", " ", "2000">>, symbol |-> "^RUT"]>>,
        primary_exchange |-> <<"New", " ", "York", " ", "Stock", " ", "Exchange">>,
        hq_location |-> <<"New", " ", "York", ",", " ", "NY", ",", " ", "USA">>])
    @@ (<<"u", "n", "i", "t", "e", "d", " ", "k", "i", "n", "g", "d", "o", "m">> :> [
        exchanges |-> <<<<"London", " ", "Stock", " ", "Exchange", " ", "(", "LSE", ")">>>>,
        indices |-> <<[name |-> <<"FTSE", " ", "100">>, symbol |-> "^FTSE"], [name |-> <<"FTSE", " ", "250">>, symbol |-> "^FTMC"], [name |-> <<"FTSE", " ", "All-Share">>, symbol |-> "^FTAS"]>>,
        primary_exchange |-> <<"London", " ", "Stock", " ", "Exchange">>,
        hq_location |-> <<"London", ",", " ", "United", " ", "Kingdom">>])
    @@ (<<"u", "k">> :> [
        exchanges |-> <<<<"London", " ", "Stock", " ", "Exchange", " ", "(", "LSE", ")">>>>,
        indices |-> <<[name |-> <<"FTSE", " ", "100">>, symbol |-> "^FTSE"], [name |-> <<"FTSE", " ", "250">>, symbol |-> "^FTMC"]>>,
        primary_exchange |-> <<"London", " ", "Stock", " ", "Exchange">>,
        hq_location |-> <<"London", ",", " ", "United", " ", "Kingdom">>])
    @@ (<<"s", "o", "u", "t", "h", " ", "k", "o", "r", "e", "a">> :> [
        exchanges |-> <<<<"Korea", " ", "Exchange", " ", "(", "KRX", ")">>>>,
        indices |-> <<[name |-> <<"KOSPI">>, symbol |-> "^KS11"], [name |-> <<"KOSDAQ">>, symbol |-> "^KQ11"]>>,
        primary_exchange |-> <<"Korea", " ", "Exchange">>,
        hq_location |-> <<"Seoul", ",", " ", "South", " ", "Korea">>])
    @@ (<<"k", "o", "r", "e", "a">> :> [
        exchanges |-> <<<<"Korea", " ", "Exchange", " ", "(", "KRX", ")">>>>,
        indices |-> <<[name |-> <<"KOSPI">>, symbol |-> "^KS11"], [name |-> <<"KOSDAQ">>, symbol |-> "^KQ11"]>>,
        primary_exchange |-> <<"Korea", " ", "Exchange">>,
        hq_location |-> <<"Seoul", ",", " ", "South", " ", "Korea">>])
    @@ (<<"c", "h", "i", "n", "a">> :> [
        exchanges |-> <<<<"Shanghai", " ", "Stock", " ", "Exchange", " ", "(", "SSE", ")">>, <<"Shenzhen", " ", "Stock", " ", "Exchange", " ", "(", "SZSE", ")">>, <<"Hong", " ", "Kong", " ", "Stock", " ", "Exchange", " ", "(", "HKEX", ")">>>>,
        indices |-> <<[name |-> <<"SSE", " ", "Composite">>, symbol |-> "000001.SS"], [name |-> <<"Shenzhen", " ", "Component">>, symbol |-> "399001.SZ"], [name |-> <<"Hang", " ", "Seng">>, symbol |-> "^HSI"]>>,
        primary_exchange |-> <<"Shanghai", " ", "Stock", " ", "Exchange">>,
        hq_location |-> <<"Shanghai", ",", " ", "China">>])
    @@ (<<"g", "e", "r", "m", "a", "n", "y">> :> [
        exchanges |-> <<<<"Frankfurt", " ", "Stock", " ", "Exchange", " ", "(", "FWB", ")">>>>,
        indices |-> <<[name |-> <<"DAX">>, symbol |-> "^GDAXI"], [name |-> <<"MDAX">>, symbol |-> "^MDAXI"], [name |-> <<"TecDAX">>, symbol |-> "^TECDAX"]>>,
        primary_exchange |-> <<"Frankfurt", " ", "Stock", " ", "Exchange">>,
        hq_location |-> <<"Frankfurt", ",", " ", "Germany">>])
    @@ (<<"f", "r", "a", "n", "c", "e">> :> [
        exchanges |-> <<<<"Euronext", " ", "Paris">>>>,
        indices |-> <<[name |-> <<"CAC", " ", "40">>, symbol |-> "^FCHI"]>>,
        primary_exchange |-> <<"Euronext", " ", "Paris">>,
        hq_location |-> <<"Paris", ",", " ", "France">>])
    @@ (<<"c", "a", "n", "a", "d", "a">> :> [
        exchanges |-> <<<<"Toronto", " ", "Stock", " ", "Exchange", " ", "(", "TSX", ")">>>>,
        indices |-> <<[name |-> <<"S&P/TSX", " ", "Composite">>, symbol |-> "^GSPTSE"], [name |-> <<"S&P/TSX", " ", "60">>, symbol |-> "^TX60"]>>,
        primary_exchange |-> <<"Toronto", " ", "Stock", " ", "Exchange">>,
        hq_location |-> <<"Toronto", ",", " ", "Ontario", ",", " ", "Canada">>])
    @@ (<<"a", "u", "s", "t", "r", "a", "l", "i", "a">> :> [
        exchanges |-> <<<<"Australian", " ", "Securities", " ", "Exchange", " ", "(", "ASX", ")">>>>,
        indices |-> <<[name |-> <<"ASX", " ", "200">>, symbol |-> "^AXJO"], [name |-> <<"All", " ", "Ordinaries">>, symbol |-> "^AORD"]>>,
        primary_exchange |-> <<"Australian", " ", "Securities", " ", "Exchange">>,
        hq_location |-> <<"Sydney", ",", " ", "NSW", ",", " ", "Australia">>])
    @@ (<<"h", "o", "n", "g", " ", "k", "o", "n", "g">> :> [
        exchanges |-> <<<<"Hong", " ", "Kong", " ", "Stock", " ", "Exchange", " ", "(", "HKEX", ")">>>>,
        indices |-> <<[name |-> <<"Hang", " ", "Seng">>, symbol |-> "^HSI"], [name |-> <<"Hang", " ", "Seng", " ", "Tech">>, symbol |-> "^HSTECH"]>>,
        primary_exchange |-> <<"Hong", " ", "Kong", " ", "Stock", " ", "Exchange">>,
        hq_location |-> <<"Hong", " ", "Kong">>])
    @@ (<<"s", "i", "n", "g", "a", "p", "o", "r", "e">> :> [
        exchanges |-> <<<<"Singapore", " ", "Exchange", " ", "(", "SGX", ")">>>>,
        indices |-> <<[name |-> <<"Straits", " ", "Times", " ", "Index">>, symbol |-> "^STI"]>>,
        primary_exchange |-> <<"Singapore", " ", "Exchange">>,
        hq_location |-> <<"Singapore">>])
    @@ (<<"b", "r", "a", "z", "i", "l">> :> [
        exchanges |-> <<<<"B3", " ", "-", " ", "Brasil", " ", "Bolsa", " ", "Balcão">>>>,
        indices |-> <<[name |-> <<"Bovespa">>, symbol |-> "^BVSP"]>>,
        primary_exchange |-> <<"B3", " ", "-", " ", "Brasil", " ", "Bolsa", " ", "Balcão">>,
        hq_location |-> <<"São", " ", "Paulo", ",", " ", "Brazil">>])
    @@ (<<"s", "w", "i", "t", "z", "e", "r", "l", "a", "n", "d">> :> [
        exchanges |-> <<<<"SIX", " ", "Swiss", " ", "Exchange">>>>,
        indices |-> <<[name |-> <<"SMI">>, symbol |-> "^SSMI"]>>,
        primary_exchange |-> <<"SIX", " ", "Swiss", " ", "Exchange">>,
        hq_location |-> <<"Zurich", ",", " ", "Switzerland">>])
    @@ (<<"s", "p", "a", "i", "n">> :> [
        exchanges |-> <<<<"Bolsa", " ", "de", " ", "Madrid">>>>,
        indices |-> <<[name |-> <<"IBEX", " ", "35">>, symbol |-> "^IBEX"]>>,
        primary_exchange |-> <<"Bolsa", " ", "de", " ", "Madrid">>,
        hq_location |-> <<"Madrid", ",", " ", "Spain">>])
    @@ (<<"i", "t", "a", "l", "y">> :> [
        exchanges |-> <<<<"Borsa", " ", "Italiana">>>>,
        indices |-> <<[name |-> <<"FTSE", " ", "MIB">>, symbol |-> "FTSEMIB.MI"]>>,
        primary_exchange |-> <<"Borsa", " ", "Italiana">>,
        hq_location |-> <<"Milan", ",", " ", "Italy">>])
    @@ (<<"n", "e", "t", "h", "e", "r", "l", "a", "n", "d", "s">> :> [
        exchanges |-> <<<<"Euronext", " ", "Amsterdam">>>>,
        indices |-> <<[name |-> <<"AEX">>, symbol |-> "^AEX"]>>,
        primary_exchange |-> <<"Euronext", " ", "Amsterdam">>,
        hq_location |-> <<"Amsterdam", ",", " ", "Netherlands">>])
    @@ (<<"s", "w", "e", "d", "e", "n">> :> [
        exchanges |-> <<<<"Nasdaq", " ", "Stockholm">>>>,
        indices |-> <<[name |-> <<"OMX", " ", "Stockholm", " ", "30">>, symbol |-> "^OMX"]>>,
        primary_exchange |-> <<"Nasdaq", " ", "Stockholm">>,
        hq_location |-> <<"Stockholm", ",", " ", "Sweden">>])
    @@ (<<"r", "u", "s", "s", "i", "a">> :> [
        exchanges |-> <<<<"Moscow", " ", "Exchange", " ", "(", "MOEX", ")">>>>,
        indices |-> <<[name |-> <<"MOEX", " ", "Russia", " ", "Index">>, symbol |-> "IMOEX.ME"]>>,
        primary_exchange |-> <<"Moscow", " ", "Exchange">>,
        hq_location |-> <<"Moscow", ",", " ", "Russia">>])
    @@ (<<"m", "e", "x", "i", "c", "o">> :> [
        exchanges |-> <<<<"Mexican", " ", "Stock", " ", "Exchange", " ", "(", "BMV", ")">>>>,
        indices |-> <<[name |-> <<"IPC">>, symbol |-> "^MXX"]>>,
        primary_exchange |-> <<"Mexican", " ", "Stock", " ", "Exchange">>,
        hq_location |-> <<"Mexico", " ", "City", ",", " ", "Mexico">>])
    @@ (<<"t", "h", "a", "i", "l", "a", "n", "d">> :> [
        exchanges |-> <<<<"Stock", " ", "Exchange", " ", "of", " ", "Thailand", " ", "(", "SET", ")">>>>,
        indices |-> <<[name |-> <<"SET", " ", "Index">>, symbol |-> "^SET.BK"]>>,
        primary_exchange |-> <<"Stock", " ", "Exchange", " ", "of", " ", "Thailand">>,
        hq_location |-> <<"Bangkok", ",", " ", "Thailand">>])
    @@ (<<"i", "n", "d", "o", "n", "e", "s", "i", "a">> :> [
        exchanges |-> <<<<"Indonesia", " ", "Stock", " ", "Exchange", " ", "(", "IDX", ")">>>>,
        indices |-> <<[name |-> <<"Jakarta", " ", "Composite">>, symbol |-> "^JKSE"]>>,
        primary_exchange |-> <<"Indonesia", " ", "Stock", " ", "Exchange">>,
        hq_location |-> <<"Jakarta", ",", " ", "Indonesia">>])
    @@ (<<"m", "a", "l", "a", "y", "s", "i", "a">> :> [
        exchanges |-> <<<<"Bursa", " ", "Malaysia">>>>,
        indices |-> <<[name |-> <<"KLCI">>, symbol |-> "^KLSE"]>>,
        primary_exchange |-> <<"Bursa", " ", "Malaysia">>,
        hq_location |-> <<"Kuala", " ", "Lumpur", ",", " ", "Malaysia">>])

exchange_locations ==
       (<<"Tokyo", " ", "Stock", " ", "Exchange">> :> [
        address |-> <<"Tokyo", " ", "Stock", " ", "Exchange", ",", " ", "2-1", " ", "Nihonbashi-Kabutocho", ",", " ", "Chuo", " ", "City", ",", " ", "Tokyo", ",", " ", "Japan">>,
        lat |-> 356809, lng |-> 1397776,
        query |-> <<"Tokyo", " ", "Stock", " ", "Exchange">>])
    @@ (<<"National", " ", "Stock", " ", "Exchange", " ", "of", " ", "India">> :> [
        address |-> <<"Exchange", " ", "Plaza", ",", " ", "Bandra", " ", "Kurla", " ", "Complex", ",", " ", "Bandra", " ", "East", ",", " ", "Mumbai", ",", " ", "Maharashtra", " ", "400051", ",", " ", "India">>,
        lat |-> 190633, lng |-> 728706,
        query |-> <<"National", " ", "Stock", " ", "Exchange", " ", "of", " ", "India", ",", " ", "Mumbai">>])
    @@ (<<"New", " ", "York", " ", "Stock", " ", "Exchange">> :> [
        address |-> <<"11", " ", "Wall", " ", "St", ",", " ", "New", " ", "York", ",", " ", "NY", " ", "10005", ",", " ", "United", " ", "States">>,
        lat |-> 407074, lng |-> -740113,
        query |-> <<"New", " ", "York", " ", "Stock", " ", "Exchange">>])
    @@ (<<"London", " ", "Stock", " ", "Exchange">> :> [
        address |-> <<"10", " ", "Paternoster", " ", "Square", ",", " ", "London", " ", "EC4M", " ", "7LS", ",", " ", "United", " ", "Kingdom">>,
        lat |-> 515142, lng |-> -991,
        query |-> <<"London", " ", "Stock", " ", "Exchange">>])
    @@ (<<"Korea", " ", "Exchange">> :> [
        address |-> <<"76", " ", "Yeouinaru-ro", ",", " ", "Yeongdeungpo-gu", ",", " ", "Seoul", ",", " ", "South", " ", "Korea">>,
        lat |-> 375262, lng |-> 1269282,
        query |-> <<"Korea", " ", "Exchange", ",", " ", "Seoul">>])
    @@ (<<"Shanghai", " ", "Stock", " ", "Exchange">> :> [
        address |-> <<"528", " ", "Pudong", " ", "South", " ", "Road", ",", " ", "Pudong", ",", " ", "Shanghai", ",", " ", "China">>,
        lat |-> 312385, lng |-> 1215007,
        query |-> <<"Shanghai", " ", "Stock", " ", "Exchange">>])
    @@ (<<"Frankfurt", " ", "Stock", " ", "Exchange">> :> [
        address |-> <<"Börsenplatz", " ", "4", ",", " ", "60313", " ", "Frankfurt", " ", "am", " ", "Main", ",", " ", "Germany">>,
        lat |-> 501135, lng |-> 86762,
        query |-> <<"Frankfurt", " ", "Stock", " ", "Exchange">>])
    @@ (<<"Euronext", " ", "Paris">> :> [
        address |-> <<"39", " ", "Rue", " ", "Cambon", ",", " ", "75001", " ", "Paris", ",", " ", "France">>,
        lat |-> 488675, lng |-> 23265,
        query |-> <<"Euronext", " ", "Paris">>])
    @@ (<<"Toronto", " ", "Stock", " ", "Exchange">> :> [
        address |-> <<"The", " ", "Exchange", " ", "Tower", ",", " ", "130", " ", "King", " ", "St", " ", "W", ",", " ", "Toronto", ",", " ", "ON", " ", "M5X", " ", "1J2", ",", " ", "Canada">>,
        lat |-> 436478, lng |-> -793813,
        query |-> <<"Toronto", " ", "Stock", " ", "Exchange">>])
    @@ (<<"Australian", " ", "Securities", " ", "Exchange">> :> [
        address |-> <<"20", " ", "Bridge", " ", "St", ",", " ", "Sydney", " ", "NSW", " ", "2000", ",", " ", "Australia">>,
        lat |-> -338646, lng |-> 1512101,
        query |-> <<"Australian", " ", "Securities", " ", "Exchange", ",", " ", "Sydney">>])
    @@ (<<"Hong", " ", "Kong", " ", "Stock", " ", "Exchange">> :> [
        address |-> <<"8", " ", "Finance", " ", "St", ",", " ", "Central", ",", " ", "Hong", " ", "Kong">>,
        lat |-> 222845, lng |-> 1141580,
        query |-> <<"Hong", " ", "Kong", " ", "Stock", " ", "Exchange">>])
    @@ (<<"Singapore", " ", "Exchange">> :> [
        address |-> <<"2", " ", "Shenton", " ", "Way", ",", " ", "Singapore", " ", "068804">>,
        lat |-> 12789, lng |-> 1038497,
        query |-> <<"Singapore", " ", "Exchange">>])
    @@ (<<"B3", " ", "-", " ", "Brasil", " ", "Bolsa", " ", "Balcão">> :> [
        address |-> <<"Praça", " ", "Antonio", " ", "Prado", ",", " ", "48", " ", "-", " ", "Centro", " ", "Histórico", " ", "de", " ", "São", " ", "Paulo", ",", " ", "São", " ", "Paulo", ",", " ", "Brazil">>,
        lat |-> -235449, lng |-> -466342,
        query |-> <<"B3", " ", "Stock", " ", "Exchange", ",", " ", "São", " ", "Paulo">>])
    @@ (<<"SIX", " ", "Swiss", " ", "Exchange">> :> [
        address |-> <<"Pfingstweidstrasse", " ", "110", ",", " ", "8005", " ", "Zürich", ",", " ", "Switzerland">>,
        lat |-> 473897, lng |-> 85162,
        query |-> <<"SIX", " ", "Swiss", " ", "Exchange", ",", " ", "Zurich">>])
    @@ (<<"Bolsa", " ", "de", " ", "Madrid">> :> [
        address |-> <<"Plaza", " ", "de", " ", "la", " ", "Lealtad", ",", " ", "1", ",", " ", "28014", " ", "Madrid", ",", " ", "Spain">>,
        lat |-> 404169, lng |-> -36943,
        query |-> <<"Bolsa", " ", "de", " ", "Madrid">>])
    @@ (<<"Borsa", " ", "Italiana">> :> [
        address |-> <<"Piazza", " ", "Affari", ",", " ", "6", ",", " ", "20123", " ", "Milano", " ", "MI", ",", " ", "Italy">>,
        lat |-> 454654, lng |-> 91859,
        query |-> <<"Borsa", " ", "Italiana", ",", " ", "Milan">>])
    @@ (<<"Euronext", " ", "Amsterdam">> :> [
        address |-> <<"Beursplein", " ", "5", ",", " ", "1012", " ", "JW", " ", "Amsterdam", ",", " ", "Netherlands">>,
        lat |-> 523736, lng |-> 48936,
        query |-> <<"Euronext", " ", "Amsterdam">>])
    @@ (<<"Nasdaq", " ", "Stockholm">> :> [
        address |-> <<"Tullvaktsvägen", " ", "15", ",", " ", "115", " ", "56", " ", "Stockholm", ",", " ", "Sweden">>,
        lat |-> 593326, lng |-> 180824,
        query |-> <<"Nasdaq", " ", "Stockholm">>])
    @@ (<<"Moscow", " ", "Exchange">> :> [
        address |-> <<"13", " ", "Bolshoy", " ", "Kislovsky", " ", "Lane", ",", " ", "Moscow", ",", " ", "Russia">>,
        lat |-> 557595, lng |-> 376028,
        query |-> <<"Moscow", " ", "Exchange">>])
    @@ (<<"Mexican", " ", "Stock", " ", "Exchange">> :> [
        address |-> <<"Paseo", " ", "de", " ", "la", " ", "Reforma", " ", "255", ",", " ", "Cuauhtémoc", ",", " ", "Mexico", " ", "City", ",", " ", "Mexico">>,
        lat |-> 194284, lng |-> -991677,
        query |-> <<"Mexican", " ", "Stock", " ", "Exchange", ",", " ", "Mexico", " ", "City">>])
    @@ (<<"Stock", " ", "Exchange", " ", "of", " ", "Thailand">> :> [
        address |-> <<"93", " ", "Ratchadaphisek", " ", "Road", ",", " ", "Din", " ", "Daeng", ",", " ", "Bangkok", ",", " ", "Thailand">>,
        lat |-> 137649, lng |-> 1005630,
        query |-> <<"Stock", " ", "Exchange", " ", "of", " ", "Thailand", ",", " ", "Bangkok">>])
    @@ (<<"Indonesia", " ", "Stock", " ", "Exchange">> :> [
        address |-> <<"Jl.", " ", "Jend.", " ", "Sudirman", " ", "Kav", " ", "52-53", ",", " ", "Jakarta", " ", "12190", ",", " ", "Indonesia">>,
        lat |-> -62258, lng |-> 1068086,
        query |-> <<"Indonesia", " ", "Stock", " ", "Exchange", ",", " ", "Jakarta">>])
    @@ (<<"Bursa", " ", "Malaysia">> :> [
        address |-> <<"15", " ", "Jalan", " ", "Semantan", ",", " ", "Bukit", " ", "Damansara", ",", " ", "50490", " ", "Kuala", " ", "Lumpur", ",", " ", "Malaysia">>,
        lat |-> 31520, lng |-> 1016695,
        query |-> <<"Bursa", " ", "Malaysia", ",", " ", "Kuala", " ", "Lumpur">>])

\* ------------------------------------------------------------------ currency tools

\* get_country_currency matching the name without trimming it
get_country_currency_NoStrip(country_name) ==
    LET country_lower == lower(country_name)
    IN  IF country_lower \notin DOMAIN country_currency_map
        THEN [error |-> <<"Currency information not found for country: ">> \o country_name]
        ELSE [country |-> title(country_name),
              currency_code |-> country_currency_map[country_lower].code,
              currency_name |-> country_currency_map[country_lower].name]

\* get_country_currency: exact match of the lower-cased, trimmed name
get_country_currency(country_name) ==
    LET country_lower == strip(lower(country_name))
    IN  IF country_lower \notin DOMAIN country_currency_map
        THEN [error |-> <<"Currency information not found for country: ">> \o country_name]
        ELSE [country |-> title(country_name),
              currency_code |-> country_currency_map[country_lower].code,
              currency_name |-> country_currency_map[country_lower].name]

\* the loop over target_currencies leaving out a target the response lacks
RECURSIVE BuildRates_OmitMissing(_, _, _)
BuildRates_OmitMissing(target_currencies, conversion_rates, rates) ==
    IF target_currencies = <<>> THEN rates
    ELSE LET target == Head(target_currencies)
         IN  BuildRates_OmitMissing(Tail(target_currencies), conversion_rates,
                 IF target \in DOMAIN conversion_rates
                 THEN Put(rates, target, Num(conversion_rates[target]))
                 ELSE rates)

\* the rates dict built by the loop over target_currencies
RECURSIVE BuildRates(_, _, _)
BuildRates(target_currencies, conversion_rates, rates) ==
    IF target_currencies = <<>> THEN rates
    ELSE LET target == Head(target_currencies)
         IN  BuildRates(Tail(target_currencies), conversion_rates,
                 Put(rates, target,
                     IF target \in DOMAIN conversion_rates
                     THEN Num(conversion_rates[target])
                     ELSE Text(<<"Not available">>)))

\* get_exchange_rates sending its request a second time after a transport error
get_exchange_rates_RetryOnce(key, base_currency, target_currencies, resp) ==
    IF ~key
    THEN Ret([error |-> <<"EXCHANGERATE_API_KEY not configured">>], <<>>)
    ELSE LET request == <<[api |-> "rate", arg |-> base_currency]>>
             failed(e) ==
                 Ret([error |-> <<"Failed to fetch exchange rates: ">> \o e], request)
         IN  CASE resp.kind = "transport_error" ->
                    Ret([error |-> <<"Failed to fetch exchange rates: ">> \o resp.text],
                        request \o request)
               [] resp.kind \in {"http_error", "not_json"} ->
                    failed(resp.text)
               [] resp.kind = "json_non_object" -> Raise(resp.text, request)
               [] resp.kind = "api_error" ->
                    Ret([error |-> <<"API error: ">> \o resp.error_type], request)
               [] resp.kind = "success" ->
                    Ret([base_currency |-> base_currency,
                         rates |-> BuildRates(target_currencies,
                                              resp.conversion_rates, <<>>),
                         last_updated |-> resp.time_last_update_utc,
                         next_update |-> resp.time_next_update_utc],
                        request)

\* get_exchange_rates: one GET of the rate API, answered by resp.  requests.get,
\* raise_for_status and response.json raise a RequestException on a transport
\* error, an HTTP error status and a body that is no JSON; a JSON body that is
\* no object makes data.get raise an AttributeError, which no handler catches.
get_exchange_rates(key, base_currency, target_currencies, resp) ==
    IF ~key
    THEN Ret([error |-> <<"EXCHANGERATE_API_KEY not configured">>], <<>>)
    ELSE LET request == <<[api |-> "rate", arg |-> base_currency]>>
             failed(e) ==
                 Ret([error |-> <<"Failed to fetch exchange rates: ">> \o e], request)
         IN  CASE resp.kind \in {"transport_error", "http_error", "not_json"} ->
                    failed(resp.text)
               [] resp.kind = "json_non_object" -> Raise(resp.text, request)
               [] resp.kind = "api_error" ->
                    Ret([error |-> <<"API error: ">> \o resp.error_type], request)
               [] resp.kind = "success" ->
                    Ret([base_currency |-> base_currency,
                         rates |-> BuildRates(target_currencies,
                                              resp.conversion_rates, <<>>),
                         last_updated |-> resp.time_last_update_utc,
                         next_update |-> resp.time_next_update_utc],
                        request)

\* the fixed list of target currencies
TargetCurrencies == <<"USD", "EUR", "GBP", "INR">>

\* list.remove(x): drops the first occurrence
RECURSIVE remove(_, _)
remove(list, x) ==
    IF list = <<>> THEN list
    ELSE IF Head(list) = x THEN Tail(list)
         ELSE <<Head(list)>> \o remove(Tail(list), x)

\* the targets with the base currency left in
TargetsFor_KeepBase(base_currency) == TargetCurrencies

\* the targets get_all_rates_for_country asks for
TargetsFor(base_currency) ==
    IF base_currency \in Range(TargetCurrencies)
    THEN remove(TargetCurrencies, base_currency)
    ELSE TargetCurrencies

\* get_all_rates_for_country returning the rate lookup's error as its own
get_all_rates_for_country_FirstError(key, country_name, resp) ==
    LET currency_info == get_country_currency(country_name)
    IN  IF "error" \in DOMAIN currency_info
        THEN Ret(currency_info, <<>>)
        ELSE LET base_currency == currency_info.currency_code
                 exchange_data ==
                     get_exchange_rates(key, base_currency,
                                        TargetsFor(base_currency), resp)
             IN  IF exchange_data.raised
                 THEN exchange_data
                 ELSE IF "error" \in DOMAIN exchange_data.val
                      THEN exchange_data
                      ELSE Ret([country |-> currency_info.country,
                                currency_code |-> currency_info.currency_code,
                                currency_name |-> currency_info.currency_name,
                                exchange_rates |-> exchange_data.val],
                               exchange_data.net)

\* get_all_rates_for_country
get_all_rates_for_country(key, country_name, resp) ==
    LET currency_info == get_country_currency(country_name)
    IN  IF "error" \in DOMAIN currency_info
        THEN Ret(currency_info, <<>>)
        ELSE LET base_currency == currency_info.currency_code
                 exchange_data ==
                     get_exchange_rates(key, base_currency,
                                        TargetsFor(base_currency), resp)
             IN  IF exchange_data.raised
                 THEN exchange_data
                 ELSE Ret([country |-> currency_info.country,
                           currency_code |-> currency_info.currency_code,
                           currency_name |-> currency_info.currency_name,
                           exchange_rates |-> exchange_data.val],
                          exchange_data.net)

\* the lines of the rates dict in get_currency_info
RECURSIVE RateLines(_)
RateLines(rates) ==
    IF rates = <<>> THEN <<>>
    ELSE LET currency == Head(rates).k
             rate == Head(rates).v
         IN  <<"- ", currency, ": ">>
             \o (IF IsNumber(rate) THEN Fmt4(rate.num) ELSE rate.str)
             \o <<"\n">> \o RateLines(Tail(rates))

\* get_currency_info answering with the rate error when it has no rates
get_currency_info_RequiringRates(key, country_name, resp) ==
    LET call == get_all_rates_for_country(key, country_name, resp)
    IN  IF call.raised THEN call
        ELSE LET result == call.val
             IN  IF "error" \in DOMAIN result
                 THEN Ret(<<"Error: ">> \o result.error, call.net)
                 ELSE IF "rates" \notin DOMAIN result.exchange_rates
                 THEN Ret(<<"Error: ">> \o result.exchange_rates.error, call.net)
                 ELSE Ret(
                     <<"**Currency Information for ">> \o result.country
                         \o <<"**", "\n", "\n">>
                     \o <<"Currency: ">> \o result.currency_name
                         \o <<" ", "(", result.currency_code, ")", "\n", "\n">>
                     \o <<"**Exchange Rates (1 ", result.currency_code,
                          " = ):**", "\n">>
                     \o RateLines(result.exchange_rates.rates)
                     \o <<"\n", "Last Updated: ">>
                     \o result.exchange_rates.last_updated \o <<"\n">>,
                     call.net)

\* get_currency_info: the currency tool's text
get_currency_info(key, country_name, resp) ==
    LET call == get_all_rates_for_country(key, country_name, resp)
    IN  IF call.raised THEN call
        ELSE LET result == call.val
             IN  IF "error" \in DOMAIN result
                 THEN Ret(<<"Error: ">> \o result.error, call.net)
                 ELSE Ret(
                     <<"**Currency Information for ">> \o result.country
                         \o <<"**", "\n", "\n">>
                     \o <<"Currency: ">> \o result.currency_name
                         \o <<" ", "(", result.currency_code, ")", "\n", "\n">>
                     \o (IF "rates" \in DOMAIN result.exchange_rates
                         THEN <<"**Exchange Rates (1 ", result.currency_code,
                                " = ):**", "\n">>
                              \o RateLines(result.exchange_rates.rates)
                              \o <<"\n", "Last Updated: ">>
                              \o result.exchange_rates.last_updated \o <<"\n">>
                         ELSE <<>>),
                     call.net)

\* ------------------------------------------------------------------ the rate API

\* a rate the API quotes for a currency, in 1/10000
QuotedRate(currency) ==
    CASE currency = "USD" -> 67
      [] currency = "EUR" -> 62
      [] currency = "GBP" -> 53
      [] currency = "INR" -> 5600
      [] OTHER -> 10000

\* what the rate API may answer to GET .../latest/{base}
RateResponses(base) ==
    LET quoted == Range(TargetCurrencies) \cup {base}
        stamp == [time_last_update_utc |-> <<"Fri, 01 Nov 2024 00:00:01 +0000">>,
                  time_next_update_utc |-> <<"Sat, 02 Nov 2024 00:00:01 +0000">>]
    IN  {[kind |-> "transport_error", text |-> <<"ConnectionError">>],
         [kind |-> "http_error", text |-> <<"403 Client Error">>],
         [kind |-> "not_json", text |-> <<"Expecting value">>],
         [kind |-> "json_non_object",
          text |-> <<"'list' object has no attribute 'get'">>],
         [kind |-> "api_error", error_type |-> <<"invalid-key">>],
         [kind |-> "api_error", error_type |-> <<"Unknown error">>]}
        \cup {[kind |-> "success",
               conversion_rates |-> [c \in quoted \ missing |-> QuotedRate(c)]]
                   @@ stamp :
              missing \in {m \in SUBSET quoted : Cardinality(m) <= MaxMissing}}

\* ------------------------------------------------------------------ stock tools

\* get_exchange_info
get_exchange_info(country_name) ==
    LET country_lower == strip(lower(country_name))
    IN  IF country_lower \notin DOMAIN stock_exchanges
        THEN [error |-> <<"Stock exchange information not found for country: ">>
                        \o country_name]
        ELSE LET exchange_data == stock_exchanges[country_lower]
             IN  [country |-> title(country_name),
                  exchanges |-> exchange_data.exchanges,
                  indices |-> [i \in DOMAIN exchange_data.indices |->
                                  exchange_data.indices[i].name],
                  primary_exchange |-> exchange_data.primary_exchange,
                  hq_location |-> exchange_data.hq_location]

\* None, as a value of the provider's metadata
None == [none |-> TRUE]

\* a / b rounded to the nearest integer, ties to even (b > 0)
RoundDiv(a, b) ==
    LET q == a \div b
        r == a % b
    IN  IF 2 * r < b THEN q
        ELSE IF 2 * r > b THEN q + 1
        ELSE IF q % 2 = 0 THEN q ELSE q + 1

\* the percentage taking a previous close of 0 as one hundredth
ChangePercent_ZeroAsUnit(change, previous_close) ==
    IF previous_close = 0 THEN RoundDiv(change * 10000, 1)
    ELSE IF previous_close > 0
         THEN RoundDiv(change * 10000, previous_close)
         ELSE RoundDiv(-(change * 10000), -previous_close)

\* round((change / previous_close) * 100, 2), in 1/100 of a percent
ChangePercent(change, previous_close) ==
    IF previous_close = 0 THEN 0
    ELSE IF previous_close > 0
         THEN RoundDiv(change * 10000, previous_close)
         ELSE RoundDiv(-(change * 10000), -previous_close)

\* the loop body taking the prior close of the history whatever its length:
\* hist['Close'].iloc[-2] of a history of one close raises IndexError
IndexEntry_PriorCloseUnguarded(ticker_symbol, fetched) ==
    CASE fetched.kind = "raise" ->
            [symbol |-> ticker_symbol,
             error |-> <<"Failed to fetch data: ">> \o fetched.text]
      [] fetched.kind = "empty" ->
            [symbol |-> ticker_symbol, error |-> <<"No data available">>]
      [] fetched.kind = "ok" ->
            LET hist == fetched.closes
                info == fetched.info
                current_price == hist[Len(hist)]
            IN  IF Len(hist) = 1
                THEN [symbol |-> ticker_symbol,
                      error |-> <<"Failed to fetch data: ",
                                  "single positional indexer is out-of-bounds">>]
                ELSE LET previous_close ==
                             IF "previousClose" \in DOMAIN info
                             THEN info.previousClose
                             ELSE Num(hist[Len(hist) - 1])
                     IN  IF ~IsNumber(previous_close)
                         THEN [symbol |-> ticker_symbol,
                               error |-> <<"Failed to fetch data: ",
                                           "unsupported operand type(s) for -: 'float' and 'NoneType'">>]
                         ELSE LET change == current_price - previous_close.num
                              IN  [symbol |-> ticker_symbol,
                                   current_value |-> current_price,
                                   previous_close |-> previous_close.num,
                                   change |-> change,
                                   change_percent |-> ChangePercent(change, previous_close.num),
                                   last_updated |-> fetched.last_updated]

\* the body of the loop of get_index_values for one ticker: the try block
\* and its handler.  fetched is what yfinance gave for the ticker.
IndexEntry(ticker_symbol, fetched) ==
    CASE fetched.kind = "raise" ->
            [symbol |-> ticker_symbol,
             error |-> <<"Failed to fetch data: ">> \o fetched.text]
      [] fetched.kind = "empty" ->
            [symbol |-> ticker_symbol, error |-> <<"No data available">>]
      [] fetched.kind = "ok" ->
            LET hist == fetched.closes
                info == fetched.info
                current_price == hist[Len(hist)]
                previous_close ==
                    IF "previousClose" \in DOMAIN info
                    THEN info.previousClose
                    ELSE Num(IF Len(hist) > 1 THEN hist[Len(hist) - 1]
                             ELSE current_price)
            IN  IF ~IsNumber(previous_close)
                THEN [symbol |-> ticker_symbol,
                      error |-> <<"Failed to fetch data: ",
                                  "unsupported operand type(s) for -: 'float' and 'NoneType'">>]
                ELSE LET change == current_price - previous_close.num
                     IN  [symbol |-> ticker_symbol,
                          current_value |-> current_price,
                          previous_close |-> previous_close.num,
                          change |-> change,
                          change_percent |-> ChangePercent(change, previous_close.num),
                          last_updated |-> fetched.last_updated]

\* the loop of get_index_values ending at the first ticker that fails
RECURSIVE IndexLoop_StopAtFailure(_, _, _)
IndexLoop_StopAtFailure(indices, fetch, index_data) ==
    IF indices = <<>> THEN index_data
    ELSE LET index_name == Head(indices).name
             ticker_symbol == Head(indices).symbol
             index_entry == IndexEntry(ticker_symbol, fetch[ticker_symbol])
         IN  IF "error" \in DOMAIN index_entry
             THEN Put(index_data, index_name, index_entry)
             ELSE IndexLoop_StopAtFailure(Tail(indices), fetch,
                      Put(index_data, index_name, index_entry))

\* the loop of get_index_values over the country's indices
RECURSIVE IndexLoop(_, _, _)
IndexLoop(indices, fetch, index_data) ==
    IF indices = <<>> THEN index_data
    ELSE LET index_name == Head(indices).name
             ticker_symbol == Head(indices).symbol
         IN  IndexLoop(Tail(indices), fetch,
                 Put(index_data, index_name,
                     IndexEntry(ticker_symbol, fetch[ticker_symbol])))

\* the market-data requests of one get_index_values call, one per ticker
TickerRequests(indices) ==
    [i \in DOMAIN indices |-> [api |-> "ticker", arg |-> indices[i].symbol]]

\* get_index_values
get_index_values(country_name, fetch) ==
    LET country_lower == strip(lower(country_name))
    IN  IF country_lower \notin DOMAIN stock_exchanges
        THEN Ret([error |-> <<"Stock exchange information not found for country: ">>
                            \o country_name], <<>>)
        ELSE LET indices == stock_exchanges[country_lower].indices
             IN  Ret([country |-> title(country_name),
                      indices |-> IndexLoop(indices, fetch, <<>>)],
                     TickerRequests(indices))

\* get_complete_stock_info
get_complete_stock_info(country_name, fetch) ==
    LET exchange_info == get_exchange_info(country_name)
    IN  IF "error" \in DOMAIN exchange_info
        THEN Ret(exchange_info, <<>>)
        ELSE LET index_values == get_index_values(country_name, fetch)
             IN  Ret([country |-> exchange_info.country,
                      exchanges |-> exchange_info.exchanges,
                      primary_exchange |-> exchange_info.primary_exchange,
                      hq_location |-> exchange_info.hq_location,
                      indices |-> IF "indices" \in DOMAIN index_values.val
                                  THEN index_values.val.indices ELSE <<>>],
                     index_values.net)

\* f"{x:,.2f}" of an amount held in 1/100 (the thousands separators left out)
Fmt2(n) ==
    LET a == IF n < 0 THEN -n ELSE n
    IN  (IF n < 0 THEN <<"-">> ELSE <<>>)
        \o <<ToString(a \div 100), ".", ToString((a \div 10) % 10), ToString(a % 10)>>

Abs(n) == IF n < 0 THEN -n ELSE n

\* the "- exchange" lines of get_stock_market_info
RECURSIVE ExchangeLines(_)
ExchangeLines(exchanges) ==
    IF exchanges = <<>> THEN <<>>
    ELSE <<"- ">> \o Head(exchanges) \o <<"\n">> \o ExchangeLines(Tail(exchanges))

\* the per-index paragraphs of get_stock_market_info
RECURSIVE IndexLines(_)
IndexLines(indices) ==
    IF indices = <<>> THEN <<>>
    ELSE LET index_name == Head(indices).k
             index_info == Head(indices).v
         IN  (IF "error" \in DOMAIN index_info
              THEN <<"**">> \o index_name \o <<"**", " ", "(", index_info.symbol, ")", ": ">>
                   \o index_info.error \o <<"\n", "\n">>
              ELSE <<"**">> \o index_name \o <<"**", " ", "(", index_info.symbol, ")", "\n">>
                   \o <<"- Current Value: ">> \o Fmt2(index_info.current_value) \o <<"\n">>
                   \o <<"- Change: ", IF index_info.change >= 0 THEN "▲" ELSE "▼", " ">>
                   \o Fmt2(Abs(index_info.change)) \o <<" ", "(">>
                   \o (IF index_info.change_percent >= 0 THEN <<"+">> ELSE <<>>)
                   \o Fmt2(index_info.change_percent) \o <<"%", ")", "\n">>
                   \o <<"- Previous Close: ">> \o Fmt2(index_info.previous_close) \o <<"\n">>
                   \o <<"- Last Updated: ">> \o index_info.last_updated \o <<"\n", "\n">>)
             \o IndexLines(Tail(indices))

\* the marker the aggregator looks for in the market text
PrimaryExchangeMarker ==
    <<"P", "r", "i", "m", "a", "r", "y", " ",
      "E", "x", "c", "h", "a", "n", "g", "e", ":">>

\* get_stock_market_info: the market tool's text
get_stock_market_info(country_name, fetch) ==
    LET call == get_complete_stock_info(country_name, fetch)
        result == call.val
    IN  IF "error" \in DOMAIN result
        THEN Ret(<<"Error: ">> \o result.error, call.net)
        ELSE Ret(
            <<"**Stock Market Information for ">> \o result.country
                \o <<"**", "\n", "\n">>
            \o <<"**Stock Exchanges:**", "\n">> \o ExchangeLines(result.exchanges)
            \o <<"\n", "**">> \o PrimaryExchangeMarker \o <<"**", " ">>
                \o result.primary_exchange \o <<"\n">>
            \o <<"**Headquarters Location:** ">> \o result.hq_location \o <<"\n", "\n">>
            \o <<"**Major Stock Indices:**", "\n", "\n">>
            \o IndexLines(result.indices),
            call.net)

\* ------------------------------------------------------------------ the market-data provider

\* the price histories a ticker fetch may return, in 1/100
Prices == {0, 10000, 10250}

Histories == UNION {[1..n -> Prices] : n \in 1..MaxCloses}

\* what yfinance may give for one ticker
TickerOutcomes ==
    {[kind |-> "raise", text |-> <<"HTTPError">>], [kind |-> "empty"]}
    \cup {[kind |-> "ok", closes |-> h, info |-> i,
           last_updated |-> <<"2024-11-01 00:00:00">>] :
          h \in Histories,
          i \in {<<>>, [previousClose |-> None]}
                \cup {[previousClose |-> Num(p)] : p \in Prices}}

\* ------------------------------------------------------------------ maps tools

\* the text of the configured GOOGLE_MAPS_API_KEY
MapsKeyText == <<"MAPS_KEY">>

\* get_embed_url without its test of the API key
get_embed_url_IgnoringKey(key, exchange_name) ==
    IF exchange_name \notin DOMAIN exchange_locations
    THEN <<"https://www.google.com/maps/embed/v1/place?key=">>
         \o (IF key THEN MapsKeyText ELSE <<"None">>)
         \o <<"&q=">> \o replace(exchange_name, <<" ">>, <<"+">>)
    ELSE <<"https://www.google.com/maps/embed/v1/place?key=">>
         \o (IF key THEN MapsKeyText ELSE <<"None">>)
         \o <<"&q=">>
         \o replace(exchange_locations[exchange_name].query, <<" ">>, <<"+">>)
         \o <<"&zoom=15">>

\* get_embed_url
get_embed_url(key, exchange_name) ==
    IF ~key THEN <<>>
    ELSE IF exchange_name \notin DOMAIN exchange_locations
         THEN <<"https://www.google.com/maps/embed/v1/place?key=">> \o MapsKeyText
              \o <<"&q=">> \o replace(exchange_name, <<" ">>, <<"+">>)
         ELSE <<"https://www.google.com/maps/embed/v1/place?key=">> \o MapsKeyText
              \o <<"&q=">>
              \o replace(exchange_locations[exchange_name].query, <<" ">>, <<"+">>)
              \o <<"&zoom=15">>

\* get_map_html
get_map_html(key, exchange_name) ==
    LET embed_url == get_embed_url(key, exchange_name)
    IN  IF embed_url = <<>>
        THEN <<"<p>Google Maps API key not configured</p>">>
        ELSE <<"<iframe width=\"600\" height=\"450\" src=\"">> \o embed_url
             \o <<"\"></iframe>">>

\* get_location_info answering with its error record when no map can be shown
get_location_info_ErrorWithoutKey(key, exchange_name) ==
    IF exchange_name \notin DOMAIN exchange_locations \/ ~key
    THEN [exchange |-> exchange_name,
          error |-> <<"Location information not available">>,
          map_url |-> get_embed_url(key, exchange_name)]
    ELSE [exchange |-> exchange_name,
          address |-> exchange_locations[exchange_name].address,
          coordinates |-> [latitude |-> exchange_locations[exchange_name].lat,
                           longitude |-> exchange_locations[exchange_name].lng],
          map_url |-> get_embed_url(key, exchange_name),
          map_html |-> get_map_html(key, exchange_name)]

\* get_location_info
get_location_info(key, exchange_name) ==
    IF exchange_name \notin DOMAIN exchange_locations
    THEN [exchange |-> exchange_name,
          error |-> <<"Location information not available">>,
          map_url |-> get_embed_url(key, exchange_name)]
    ELSE [exchange |-> exchange_name,
          address |-> exchange_locations[exchange_name].address,
          coordinates |-> [latitude |-> exchange_locations[exchange_name].lat,
                           longitude |-> exchange_locations[exchange_name].lng],
          map_url |-> get_embed_url(key, exchange_name),
          map_html |-> get_map_html(key, exchange_name)]

\* get_exchange_location: the location tool
get_exchange_location(key, exchange_name) ==
    Ret(get_location_info(key, exchange_name), <<>>)

\* ------------------------------------------------------------------ MCP server

\* the names and the required parameter of list_tools
list_tools ==
    <<[name |-> "get_currency_info", required |-> "country_name"],
      [name |-> "get_stock_market_info", required |-> "country_name"],
      [name |-> "get_exchange_location", required |-> "exchange_name"]>>

\* parameters.get(name, "")
Param(parameters, name) ==
    IF name \in DOMAIN parameters THEN parameters[name] ELSE <<>>

\* execute_tool reading country_name for every tool
execute_tool_OneParameterName(tool_name, parameters, rkey, mkey, resp, fetch) ==
    CASE tool_name = "get_currency_info" ->
            get_currency_info(rkey, Param(parameters, "country_name"), resp)
      [] tool_name = "get_stock_market_info" ->
            get_stock_market_info(Param(parameters, "country_name"), fetch)
      [] tool_name = "get_exchange_location" ->
            get_exchange_location(mkey, Param(parameters, "country_name"))
      [] OTHER -> Ret([error |-> <<"Unknown tool: ", tool_name>>], <<>>)

\* execute_tool: dispatch on the tool name
execute_tool(tool_name, parameters, rkey, mkey, resp, fetch) ==
    CASE tool_name = "get_currency_info" ->
            get_currency_info(rkey, Param(parameters, "country_name"), resp)
      [] tool_name = "get_stock_market_info" ->
            get_stock_market_info(Param(parameters, "country_name"), fetch)
      [] tool_name = "get_exchange_location" ->
            get_exchange_location(mkey, Param(parameters, "exchange_name"))
      [] OTHER -> Ret([error |-> <<"Unknown tool: ", tool_name>>], <<>>)
\* a phrase list that also removes the word "in"
Phrases_WithIn ==
    <<<<"g", "i", "v", "e", " ", "m", "e">>,
      <<"s", "h", "o", "w", " ", "m", "e">>,
      <<"g", "e", "t">>,
      <<"i", "n">>,
      <<"d", "e", "t", "a", "i", "l", "s", " ", "f", "o", "r">>,
      <<"i", "n", "f", "o", "r", "m", "a", "t", "i", "o", "n", " ", "a", "b", "o", "u", "t">>,
      <<"c", "u", "r", "r", "e", "n", "c", "y", " ", "a", "n", "d", " ", "s", "t", "o", "c", "k", " ", "m", "a", "r", "k", "e", "t", " ", "d", "e", "t", "a", "i", "l", "s", " ", "f", "o", "r">>,
      <<"f", "i", "n", "a", "n", "c", "i", "a", "l", " ", "i", "n", "f", "o", "r", "m", "a", "t", "i", "o", "n", " ", "f", "o", "r">>>>

\* the phrases _extract_country_name removes, in the order it removes them
Phrases ==
    <<<<"g", "i", "v", "e", " ", "m", "e">>,
      <<"s", "h", "o", "w", " ", "m", "e">>,
      <<"g", "e", "t">>,
      <<"d", "e", "t", "a", "i", "l", "s", " ", "f", "o", "r">>,
      <<"i", "n", "f", "o", "r", "m", "a", "t", "i", "o", "n", " ", "a", "b", "o", "u", "t">>,
      <<"c", "u", "r", "r", "e", "n", "c", "y", " ", "a", "n", "d", " ", "s", "t", "o", "c", "k", " ", "m", "a", "r", "k", "e", "t", " ", "d", "e", "t", "a", "i", "l", "s", " ", "f", "o", "r">>,
      <<"f", "i", "n", "a", "n", "c", "i", "a", "l", " ", "i", "n", "f", "o", "r", "m", "a", "t", "i", "o", "n", " ", "f", "o", "r">>>>

InJapan == <<"J", "a", "p", "a", "n">>

InJapanPadded == <<" ", "J", "A", "P", "A", "N", " ">>

InFrance == <<"f", "r", "a", "n", "c", "e">>

InIndia == <<"I", "n", "d", "i", "a">>

InUk == <<"U", "K">>

InNetherlands == <<"N", "e", "t", "h", "e", "r", "l", "a", "n", "d", "s">>

InKenya == <<"K", "e", "n", "y", "a">>

InAtlantis == <<"A", "t", "l", "a", "n", "t", "i", "s">>

InEmpty == <<>>

InMarker == <<"P", "r", "i", "m", "a", "r", "y", " ", "E", "x", "c", "h", "a", "n", "g", "e", ":", " ", "X">>

QJapan == <<"g", "i", "v", "e", " ", "m", "e", " ", "j", "a", "p", "a", "n">>

QShowUk == <<"S", "h", "o", "w", " ", "m", "e", " ", "U", "K">>

QPhraseOnly == <<"s", "h", "o", "w", " ", "m", "e", " ">>

QBlank == <<" ">>

QEmpty == <<>>

QMarker == <<"p", "r", "i", "m", "a", "r", "y", " ", "e", "x", "c", "h", "a", "n", "g", "e", ":", " ", "x">>

QAtlantis == <<"g", "e", "t", " ", "a", "t", "l", "a", "n", "t", "i", "s">>


\* ------------------------------------------------------------------ agent

\* the length a traced tool output is cut to
TraceLimit == 200

\* len(s), in characters
RECURSIVE CharLen(_)
CharLen(s) ==
    IF Len(s) = 0 THEN 0
    ELSE IF Len(s) = 1 THEN Len(s[1])
    ELSE CharLen(SubSeq(s, 1, Len(s) \div 2))
         + CharLen(SubSeq(s, Len(s) \div 2 + 1, Len(s)))

\* how many leading glyphs of s fit into n characters, between lo and hi
RECURSIVE Fitting(_, _, _, _)
Fitting(s, n, lo, hi) ==
    IF lo = hi THEN lo
    ELSE LET mid == (lo + hi + 1) \div 2
         IN  IF CharLen(SubSeq(s, 1, mid)) <= n
             THEN Fitting(s, n, mid, hi)
             ELSE Fitting(s, n, lo, mid - 1)

\* s[:n]; a glyph the cut falls into is dropped whole
Slice(s, n) == SubSeq(s, 1, Fitting(s, n, 0, Len(s)))

\* result[:200] + "..." if len(result) > 200 else result
Traced(result) ==
    IF CharLen(result) > TraceLimit
    THEN Slice(result, TraceLimit) \o <<"...">>
    ELSE result

RECURSIVE StripPhrases(_, _)
StripPhrases(s, phrases) ==
    IF phrases = <<>> THEN s
    ELSE StripPhrases(replace(s, Head(phrases), <<>>), Tail(phrases))

\* _extract_country_name
_extract_country_name(user_input) ==
    title(strip(StripPhrases(lower(user_input), Phrases)))

\* step 1 of _call_tools: the try block around get_currency_info and its handler
CurrencyHandled(call, c, res, steps) ==
    IF call.raised
    THEN [results |-> ("currency_info" :> (<<"Error fetching currency info: ">> \o call.exc)) @@ res,
          steps |-> Append(steps, [tool |-> "get_currency_info", input |-> c,
                                   error |-> call.exc])]
    ELSE [results |-> ("currency_info" :> call.val) @@ res,
          steps |-> Append(steps, [tool |-> "get_currency_info", input |-> c,
                                   output |-> Traced(call.val)])]

\* the extraction without the final trim
ExtractPrimaryExchange_Untrimmed(stock_result) ==
    LET lines == split(stock_result)
        first == SetMin({i \in DOMAIN lines : Contains(lines[i], PrimaryExchangeMarker)})
    IN  replace(lines[first], <<"**">> \o PrimaryExchangeMarker \o <<"**">>, <<>>)

\* the extraction without the removal of the bold marker
ExtractPrimaryExchange_KeepingMarker(stock_result) ==
    LET lines == split(stock_result)
        first == SetMin({i \in DOMAIN lines : Contains(lines[i], PrimaryExchangeMarker)})
    IN  strip(lines[first])

\* the primary exchange _call_tools reads back from the market text: the
\* first line holding the marker, the bold marker removed, trimmed
ExtractPrimaryExchange(stock_result) ==
    LET lines == split(stock_result)
        first == SetMin({i \in DOMAIN lines : Contains(lines[i], PrimaryExchangeMarker)})
    IN  strip(replace(lines[first], <<"**">> \o PrimaryExchangeMarker \o <<"**">>, <<>>))

\* step 2 of _call_tools: the try block around get_stock_market_info and its handler
MarketHandled(call, c, res, steps) ==
    IF call.raised
    THEN [results |-> ("stock_info" :> (<<"Error fetching stock info: ">> \o call.exc)) @@ res,
          steps |-> Append(steps, [tool |-> "get_stock_market_info", input |-> c,
                                   error |-> call.exc])]
    ELSE [results |->
              (IF Contains(call.val, PrimaryExchangeMarker)
               THEN "primary_exchange" :> ExtractPrimaryExchange(call.val)
               ELSE <<>>)
              @@ ("stock_info" :> call.val) @@ res,
          steps |-> Append(steps, [tool |-> "get_stock_market_info", input |-> c,
                                   output |-> Traced(call.val)])]

\* the condition of step 3
LocationWanted(res, key) == "primary_exchange" \in DOMAIN res /\ key

\* repr of a str of the tables (none holds a quote or a backslash)
ReprStr(s) == <<"'">> \o s \o <<"'">>

\* repr of a coordinate held in 1/10000: the shortest decimal text
ReprFloat(n) ==
    LET a == Abs(n)
        f == a % 10000
        d(k) == ToString((f \div k) % 10)
    IN  (IF n < 0 THEN <<"-">> ELSE <<>>)
        \o <<ToString(a \div 10000), ".">>
        \o (IF f % 1000 = 0 THEN <<d(1000)>>
            ELSE IF f % 100 = 0 THEN <<d(1000), d(100)>>
            ELSE IF f % 10 = 0 THEN <<d(1000), d(100), d(10)>>
            ELSE <<d(1000), d(100), d(10), d(1)>>)

\* str(location_result): the text of the record get_exchange_location returns
str(location_result) ==
    <<"{", "'exchange'", ": ">> \o ReprStr(location_result.exchange)
    \o (IF "error" \in DOMAIN location_result
        THEN <<", ", "'error'", ": ">> \o ReprStr(location_result.error)
             \o <<", ", "'map_url'", ": ">> \o ReprStr(location_result.map_url)
        ELSE <<", ", "'address'", ": ">> \o ReprStr(location_result.address)
             \o <<", ", "'coordinates'", ": ", "{", "'latitude'", ": ">>
             \o ReprFloat(location_result.coordinates.latitude)
             \o <<", ", "'longitude'", ": ">>
             \o ReprFloat(location_result.coordinates.longitude)
             \o <<"}", ", ", "'map_url'", ": ">> \o ReprStr(location_result.map_url)
             \o <<", ", "'map_html'", ": ">> \o ReprStr(location_result.map_html))
    \o <<"}">>

\* step 3 of _call_tools leaving a successful lookup out of the trace
LocationHandled_Untraced(call, res, steps) ==
    IF call.raised
    THEN [results |-> ("location_info" :> [error |-> call.exc]) @@ res,
          steps |-> Append(steps, [tool |-> "get_exchange_location",
                                   input |-> res["primary_exchange"],
                                   error |-> call.exc])]
    ELSE [results |-> ("location_info" :> call.val) @@ res,
          steps |-> steps]

\* step 3 of _call_tools: the try block around get_exchange_location and its handler
LocationHandled(call, res, steps) ==
    IF call.raised
    THEN [results |-> ("location_info" :> [error |-> call.exc]) @@ res,
          steps |-> Append(steps, [tool |-> "get_exchange_location",
                                   input |-> res["primary_exchange"],
                                   error |-> call.exc])]
    ELSE [results |-> ("location_info" :> call.val) @@ res,
          steps |-> Append(steps, [tool |-> "get_exchange_location",
                                   input |-> res["primary_exchange"],
                                   output |-> str(call.val)])]

\* _format_output leaving out a section that holds an error text
_format_output_HidingErrors(c, res) ==
    <<"# Financial Information for ">> \o c \o <<"\n", "\n">>
    \o (IF "currency_info" \in DOMAIN res
           /\ ~StartsWith(res["currency_info"], <<"Error: ">>)
        THEN res["currency_info"] \o <<"\n", "\n">> ELSE <<>>)
    \o (IF "stock_info" \in DOMAIN res /\ ~StartsWith(res["stock_info"], <<"Error: ">>)
        THEN res["stock_info"] \o <<"\n", "\n">> ELSE <<>>)

\* _format_output
_format_output(c, res) ==
    <<"# Financial Information for ">> \o c \o <<"\n", "\n">>
    \o (IF "currency_info" \in DOMAIN res
        THEN res["currency_info"] \o <<"\n", "\n">> ELSE <<>>)
    \o (IF "stock_info" \in DOMAIN res
        THEN res["stock_info"] \o <<"\n", "\n">> ELSE <<>>)
    \o (IF "location_info" \in DOMAIN res /\ "error" \notin DOMAIN res["location_info"]
        THEN LET location == res["location_info"]
             IN  <<"---", "\n", "\n", "**Stock Exchange Location:**", "\n", "\n">>
                 \o (IF "exchange" \in DOMAIN location
                     THEN <<"Exchange: ">> \o location.exchange \o <<"\n", "\n">>
                     ELSE <<>>)
                 \o (IF "address" \in DOMAIN location
                     THEN <<"Address: ">> \o location.address \o <<"\n", "\n">>
                     ELSE <<>>)
        ELSE <<>>)

\* the record query and get_financial_info return after the tools ran
Succeeded(c, res, steps) ==
    [success |-> TRUE, output |-> _format_output(c, res), intermediate_steps |-> steps]

\* the record of the outer handler of query / get_financial_info
Failed(which, e) ==
    [success |-> FALSE, error |-> e,
     output |-> <<IF which = "query" THEN "Error processing query: "
                  ELSE "Error getting financial info: ">> \o e]

\* the record query returns when no country is left
NoCountry ==
    [success |-> FALSE, error |-> <<"Could not identify country from query">>,
     output |-> <<"Please specify a country name in your query.">>]

\* ------------------------------------------------------------------ environment

\* the longest target list handed to get_exchange_rates directly
MaxTargets == 2

\* the indices of a country's entry of the exchange table (none when absent)
IndicesOf(country_name) ==
    IF strip(lower(country_name)) \in DOMAIN stock_exchanges
    THEN stock_exchanges[strip(lower(country_name))].indices
    ELSE <<>>

\* what the provider gives for each ticker of a country, drawn from outcomes
Fetches(country_name, outcomes) ==
    [{IndicesOf(country_name)[i].symbol : i \in DOMAIN IndicesOf(country_name)}
        -> outcomes]

\* one outcome of each kind; the agent's runs draw from these
CoarseTickerOutcomes ==
    {o \in TickerOutcomes :
        o.kind # "ok" \/ (o.closes = <<10250>> /\ o.info = <<>>)}

\* no request is made, so no response is consumed
NoResponse == [kind |-> "none"]

\* the rate API's possible answers to the request a country's lookup makes
RateOracle(key, country_name) ==
    LET currency_info == get_country_currency(country_name)
    IN  IF ~key \/ "error" \in DOMAIN currency_info
        THEN {NoResponse}
        ELSE RateResponses(currency_info.currency_code)

\* an exception raised by a tool call outside the tool's own handlers
Fault == Raise(<<"out of memory">>, <<>>)

CountryInputs ==
    {InJapan, InJapanPadded, InFrance, InIndia, InUk, InNetherlands, InKenya,
     InAtlantis, InEmpty, InMarker}

QueryInputs == {QJapan, QShowUk, QPhraseOnly, QBlank, QEmpty, QMarker, QAtlantis}

\* ------------------------------------------------------------------ the agent's runs

NoCall == [op |-> "none"]

Running == [running |-> TRUE]

Init ==
    /\ api_key \in BOOLEAN
    /\ maps_key \in BOOLEAN
    /\ pc = "idle"
    /\ entry = "none"
    /\ country = <<>>
    /\ results = <<>>
    /\ intermediate_steps = <<>>
    /\ ret = Running
    /\ calls = <<>>
    /\ net = <<>>
    /\ failures = {}
    /\ tool = NoCall

\* get_financial_info(c) appending to the trace of the calls before it
GetFinancialInfo_KeepingTrace(c) ==
    /\ pc = "idle"
    /\ pc' = "currency"
    /\ entry' = "get_financial_info"
    /\ country' = c
    /\ results' = <<>>
    /\ ret' = Running
    /\ calls' = [i \in DOMAIN intermediate_steps |->
                    [tool |-> intermediate_steps[i].tool,
                     input |-> intermediate_steps[i].input,
                     out |-> Ret(<<>>, <<>>)]]
    /\ net' = <<>>
    /\ failures' = {}
    /\ UNCHANGED <<api_key, maps_key, tool, intermediate_steps>>

\* get_financial_info(c) up to the first tool call
GetFinancialInfo(c) ==
    /\ pc = "idle"
    /\ pc' = "currency"
    /\ entry' = "get_financial_info"
    /\ country' = c
    /\ results' = <<>>
    /\ intermediate_steps' = <<>>
    /\ ret' = Running
    /\ calls' = <<>>
    /\ net' = <<>>
    /\ failures' = {}
    /\ UNCHANGED <<api_key, maps_key, tool>>

\* query(user_input) without its test of the resolved country
Query_NoEmptyCheck(user_input) ==
    LET c == _extract_country_name(user_input)
    IN  /\ pc = "idle"
        /\ entry' = "query"
        /\ country' = c
        /\ results' = <<>>
        /\ calls' = <<>>
        /\ net' = <<>>
        /\ failures' = {}
        /\ ret' = Running
        /\ pc' = "currency"
        /\ intermediate_steps' = <<>>
        /\ UNCHANGED <<api_key, maps_key, tool>>

\* query(user_input) up to the first tool call, or to its early return
Query(user_input) ==
    LET c == _extract_country_name(user_input)
    IN  /\ pc = "idle"
        /\ entry' = "query"
        /\ country' = c
        /\ results' = <<>>
        /\ calls' = <<>>
        /\ net' = <<>>
        /\ failures' = {}
        /\ IF c = <<>>
           THEN /\ ret' = NoCountry
                /\ pc' = "idle"
                /\ UNCHANGED intermediate_steps
           ELSE /\ ret' = Running
                /\ pc' = "currency"
                /\ intermediate_steps' = <<>>
        /\ UNCHANGED <<api_key, maps_key, tool>>

\* the failures inside one get_currency_info call
CurrencyFailures(key, c, resp) ==
    LET inner == get_all_rates_for_country(key, c, resp)
    IN  IF inner.raised THEN {[step |-> "currency", text |-> inner.exc]}
        ELSE IF "error" \in DOMAIN inner.val
             THEN {[step |-> "currency lookup", text |-> inner.val.error]}
             ELSE IF "error" \in DOMAIN inner.val.exchange_rates
                  THEN {[step |-> "rate fetch", text |-> inner.val.exchange_rates.error]}
                  ELSE {}

\* the failures inside one get_stock_market_info call
MarketFailures(c, fetch) ==
    LET inner == get_complete_stock_info(c, fetch).val
    IN  IF "error" \in DOMAIN inner
        THEN {[step |-> "market lookup", text |-> inner.error]}
        ELSE {[step |-> "index fetch", text |-> inner.indices[i].v.error] :
                 i \in {j \in DOMAIN inner.indices : "error" \in DOMAIN inner.indices[j].v}}

\* step 1 without its try block: the exception reaches the outer handler
CurrencyStep_Uncaught ==
    /\ pc = "currency"
    /\ \E resp \in RateOracle(api_key, country) :
       \E call \in {get_currency_info(api_key, country, resp)} :
       \E h \in {CurrencyHandled(call, country, results, intermediate_steps)} :
         /\ calls' = Append(calls, [tool |-> "get_currency_info",
                                    input |-> country, out |-> call])
         /\ net' = net \o call.net
         /\ failures' = failures \cup CurrencyFailures(api_key, country, resp)
         /\ IF call.raised
            THEN /\ ret' = Failed(entry, call.exc)
                 /\ pc' = "idle"
                 /\ UNCHANGED <<results, intermediate_steps>>
            ELSE /\ results' = h.results
                 /\ intermediate_steps' = h.steps
                 /\ pc' = "market"
                 /\ UNCHANGED ret
    /\ UNCHANGED <<api_key, maps_key, entry, country, tool>>

\* step 1 of _call_tools
CurrencyStep ==
    /\ pc = "currency"
    /\ \E resp \in RateOracle(api_key, country) :
       \E call \in {get_currency_info(api_key, country, resp)} :
       \E h \in {CurrencyHandled(call, country, results, intermediate_steps)} :
         /\ results' = h.results
         /\ intermediate_steps' = h.steps
         /\ calls' = Append(calls, [tool |-> "get_currency_info",
                                    input |-> country, out |-> call])
         /\ net' = net \o call.net
         /\ failures' = failures \cup CurrencyFailures(api_key, country, resp)
    /\ pc' = "market"
    /\ UNCHANGED <<api_key, maps_key, entry, country, ret, tool>>

\* step 2 without its try block: the exception reaches the outer handler
MarketStep_Uncaught ==
    /\ pc = "market"
    /\ \E fetch \in Fetches(country, CoarseTickerOutcomes), fault \in BOOLEAN :
       \E call \in {IF fault THEN Fault ELSE get_stock_market_info(country, fetch)} :
       \E h \in {MarketHandled(call, country, results, intermediate_steps)} :
         /\ calls' = Append(calls, [tool |-> "get_stock_market_info",
                                    input |-> country, out |-> call])
         /\ net' = net \o call.net
         /\ failures' = failures \cup
                (IF fault THEN {[step |-> "market", text |-> call.exc]}
                 ELSE MarketFailures(country, fetch))
         /\ IF call.raised
            THEN /\ ret' = Failed(entry, call.exc)
                 /\ pc' = "idle"
                 /\ UNCHANGED <<results, intermediate_steps>>
            ELSE /\ results' = h.results
                 /\ intermediate_steps' = h.steps
                 /\ pc' = IF LocationWanted(h.results, maps_key)
                          THEN "location" ELSE "format"
                 /\ UNCHANGED ret
    /\ UNCHANGED <<api_key, maps_key, entry, country, tool>>

\* step 2 of _call_tools, and the test that guards step 3
MarketStep ==
    /\ pc = "market"
    /\ \E fetch \in Fetches(country, CoarseTickerOutcomes), fault \in BOOLEAN :
       \E call \in {IF fault THEN Fault ELSE get_stock_market_info(country, fetch)} :
       \E h \in {MarketHandled(call, country, results, intermediate_steps)} :
         /\ results' = h.results
         /\ intermediate_steps' = h.steps
         /\ calls' = Append(calls, [tool |-> "get_stock_market_info",
                                    input |-> country, out |-> call])
         /\ net' = net \o call.net
         /\ failures' = failures \cup
                (IF fault THEN {[step |-> "market", text |-> call.exc]}
                 ELSE MarketFailures(country, fetch))
         /\ pc' = IF LocationWanted(h.results, maps_key) THEN "location" ELSE "format"
    /\ UNCHANGED <<api_key, maps_key, entry, country, ret, tool>>

\* step 3 of _call_tools
LocationStep ==
    /\ pc = "location"
    /\ \E fault \in BOOLEAN :
       \E call \in {IF fault THEN Fault
                    ELSE get_exchange_location(maps_key, results["primary_exchange"])} :
       \E h \in {LocationHandled(call, results, intermediate_steps)} :
         /\ results' = h.results
         /\ intermediate_steps' = h.steps
         /\ calls' = Append(calls, [tool |-> "get_exchange_location",
                                    input |-> results["primary_exchange"],
                                    out |-> call])
         /\ net' = net \o call.net
         /\ failures' = failures \cup
                (IF fault THEN {[step |-> "location", text |-> call.exc]}
                 ELSE IF "error" \in DOMAIN call.val
                      THEN {[step |-> "location lookup", text |-> call.val.error]}
                      ELSE {})
    /\ pc' = "format"
    /\ UNCHANGED <<api_key, maps_key, entry, country, ret, tool>>

\* _format_output and the return of query / get_financial_info
Finish ==
    /\ pc = "format"
    /\ ret' = Succeeded(country, results, intermediate_steps)
    /\ pc' = "idle"
    /\ UNCHANGED <<api_key, maps_key, entry, country, results, intermediate_steps,
                   calls, net, failures, tool>>

Next ==
    \/ \E c \in CountryInputs : GetFinancialInfo(c)
    \/ \E u \in QueryInputs : Query(u)
    \/ CurrencyStep
    \/ MarketStep
    \/ LocationStep
    \/ Finish

Spec == Init /\ [][Next]_vars

\* ------------------------------------------------------------------ the tools called directly

agent == <<pc, entry, country, results, intermediate_steps, ret, calls, net, failures>>

\* the target lists handed to get_exchange_rates directly
TargetLists(base) ==
    UNION {[1..n -> Range(TargetCurrencies) \cup {base}] : n \in 0..MaxTargets}
    \cup {TargetCurrencies, TargetsFor(base)}

BaseInputs == {"JPY", "USD"}

CallGetCountryCurrency ==
    /\ tool = NoCall
    /\ \E c \in CountryInputs :
        /\ tool' = [op |-> "get_country_currency", country_name |-> c,
                    out |-> Ret(get_country_currency(c), <<>>)]
        /\ UNCHANGED <<api_key, maps_key, agent>>

CallGetExchangeRates ==
    /\ tool = NoCall
    /\ \E base \in BaseInputs :
      \E targets \in TargetLists(base), resp \in RateResponses(base) :
        /\ tool' = [op |-> "get_exchange_rates", base_currency |-> base,
                    target_currencies |-> targets, resp |-> resp,
                    out |-> get_exchange_rates(api_key, base, targets, resp)]
        /\ UNCHANGED <<api_key, maps_key, agent>>

CallGetAllRatesForCountry ==
    /\ tool = NoCall
    /\ \E c \in CountryInputs :
      \E resp \in RateOracle(api_key, c) :
        /\ tool' = [op |-> "get_all_rates_for_country", country_name |-> c,
                    resp |-> resp,
                    out |-> get_all_rates_for_country(api_key, c, resp)]
        /\ UNCHANGED <<api_key, maps_key, agent>>

CallGetCurrencyInfo ==
    /\ tool = NoCall
    /\ \E c \in CountryInputs :
      \E resp \in RateOracle(api_key, c) :
        /\ tool' = [op |-> "get_currency_info", country_name |-> c, resp |-> resp,
                    out |-> get_currency_info(api_key, c, resp)]
        /\ UNCHANGED <<api_key, maps_key, agent>>

\* the provider's answers for a direct market call: every outcome for a
\* country of at most two indices, one outcome of each kind beyond that
DirectFetches(c) ==
    Fetches(c, IF Len(IndicesOf(c)) <= 2 THEN TickerOutcomes ELSE CoarseTickerOutcomes)

CallGetIndexValues ==
    /\ tool = NoCall
    /\ \E c \in CountryInputs :
      \E fetch \in DirectFetches(c) :
        /\ tool' = [op |-> "get_index_values", country_name |-> c, fetch |-> fetch,
                    out |-> get_index_values(c, fetch)]
        /\ UNCHANGED <<api_key, maps_key, agent>>

CallGetStockMarketInfo ==
    /\ tool = NoCall
    /\ \E c \in CountryInputs :
      \E fetch \in Fetches(c, CoarseTickerOutcomes) :
        /\ tool' = [op |-> "get_stock_market_info", country_name |-> c, fetch |-> fetch,
                    out |-> get_stock_market_info(c, fetch)]
        /\ UNCHANGED <<api_key, maps_key, agent>>

\* the exchange names handed to the maps tools: every key of the location
\* table, and names that are no key (unknown, empty, a key in lower case)
ExchangeInputs ==
    DOMAIN exchange_locations
    \cup {InAtlantis, InEmpty,
          <<"Nairobi", " ", "Securities", " ", "Exchange">>,
          <<"tokyo", " ", "stock", " ", "exchange">>}

CallGetEmbedUrl ==
    /\ tool = NoCall
    /\ \E e \in ExchangeInputs :
        /\ tool' = [op |-> "get_embed_url", exchange_name |-> e,
                    out |-> Ret(get_embed_url(maps_key, e), <<>>)]
        /\ UNCHANGED <<api_key, maps_key, agent>>

CallGetMapHtml ==
    /\ tool = NoCall
    /\ \E e \in ExchangeInputs :
        /\ tool' = [op |-> "get_map_html", exchange_name |-> e,
                    out |-> Ret(get_map_html(maps_key, e), <<>>)]
        /\ UNCHANGED <<api_key, maps_key, agent>>

CallGetLocationInfo ==
    /\ tool = NoCall
    /\ \E e \in ExchangeInputs :
        /\ tool' = [op |-> "get_location_info", exchange_name |-> e,
                    out |-> Ret(get_location_info(maps_key, e), <<>>)]
        /\ UNCHANGED <<api_key, maps_key, agent>>

\* step 2 of _call_tools for each country of the exchange table, every
\* ticker's history empty: the results the step leaves
CallMarketStep ==
    /\ tool = NoCall
    /\ \E c \in DOMAIN stock_exchanges :
      \E fetch \in Fetches(c, {[kind |-> "empty"]}) :
      \E call \in {get_stock_market_info(c, fetch)} :
        /\ tool' = [op |-> "_call_tools step 2", country_name |-> c,
                    out |-> Ret(MarketHandled(call, c, <<>>, <<>>).results, call.net)]
        /\ UNCHANGED <<api_key, maps_key, agent>>

\* str.upper
upper(s) == [i \in DOMAIN s |-> ToUpperCh(s[i])]

\* the keys of the two country tables
CountryKeys == DOMAIN country_currency_map \cup DOMAIN stock_exchanges

\* a table key as a user may write it
Written(key, style) ==
    CASE style = "lower" -> key
      [] style = "upper" -> upper(key)
      [] style = "title" -> title(key)
      [] style = "padded" -> <<" ", " ">> \o title(key) \o <<" ">>

\* the queries handed to the resolver: a table key in some letter case,
\* alone or after one phrase of the phrase list and a blank
ResolverInputs ==
    {[phrase |-> p, key |-> k, style |-> s] :
        p \in Range(Phrases) \cup {<<>>},
        k \in CountryKeys,
        s \in {"lower", "upper", "title", "padded"}}

\* the text of a query
QueryText(q) ==
    IF q.phrase = <<>> THEN Written(q.key, q.style)
    ELSE (IF q.style = "upper" THEN upper(q.phrase) ELSE q.phrase)
         \o <<" ">> \o Written(q.key, q.style)

CallExtractCountryName ==
    /\ tool = NoCall
    /\ \E q \in ResolverInputs :
        /\ tool' = [op |-> "_extract_country_name", phrase |-> q.phrase,
                    key |-> q.key, user_input |-> QueryText(q),
                    out |-> Ret(_extract_country_name(QueryText(q)), <<>>)]
        /\ UNCHANGED <<api_key, maps_key, agent>>

ToolNames ==
    {"get_currency_info", "get_stock_market_info", "get_exchange_location",
     "get_location"}

\* the parameter dicts handed to execute_tool
ParameterInputs ==
    {<<>>}
    \cup {[country_name |-> c] : c \in {InJapan, InFrance, InAtlantis}}
    \cup {[exchange_name |-> e] : e \in {stock_exchanges[lower(InJapan)].primary_exchange,
                                          InAtlantis}}

CallExecuteTool ==
    /\ tool = NoCall
    /\ \E tool_name \in ToolNames, parameters \in ParameterInputs :
      \E resp \in RateOracle(api_key, Param(parameters, "country_name")),
         fetch \in Fetches(Param(parameters, "country_name"), CoarseTickerOutcomes) :
        /\ tool' = [op |-> "execute_tool", tool_name |-> tool_name,
                    parameters |-> parameters, resp |-> resp, fetch |-> fetch,
                    out |-> execute_tool(tool_name, parameters, api_key, maps_key,
                                         resp, fetch)]
        /\ UNCHANGED <<api_key, maps_key, agent>>

\* the caller takes the outcome; the next call starts afresh
ToolReturn ==
    /\ tool # NoCall
    /\ tool' = NoCall
    /\ UNCHANGED <<api_key, maps_key, agent>>

ToolNext ==
    \/ CallGetCountryCurrency
    \/ CallGetExchangeRates
    \/ CallGetAllRatesForCountry
    \/ CallGetCurrencyInfo
    \/ CallGetIndexValues
    \/ CallGetStockMarketInfo
    \/ CallGetEmbedUrl
    \/ CallGetMapHtml
    \/ CallGetLocationInfo
    \/ CallMarketStep
    \/ CallExtractCountryName
    \/ CallExecuteTool
    \/ ToolReturn

ToolSpec == Init /\ [][ToolNext]_vars

\* ------------------------------------------------------------------ properties of the agent's runs

\* the key of results a tool's step writes
ResultKey(tool_name) ==
    CASE tool_name = "get_currency_info" -> "currency_info"
      [] tool_name = "get_stock_market_info" -> "stock_info"
      [] tool_name = "get_exchange_location" -> "location_info"

\* the error a step's handler stores in results for an exception e
StepError(tool_name, e) ==
    CASE tool_name = "get_currency_info" -> <<"Error fetching currency info: ">> \o e
      [] tool_name = "get_stock_market_info" -> <<"Error fetching stock info: ">> \o e
      [] tool_name = "get_exchange_location" -> [error |-> e]

\* the tools called so far in the current run, in order
ToolsCalled == [i \in DOMAIN calls |-> calls[i].tool]

\* a run went through _call_tools and returned
Returned == pc = "idle" /\ entry # "none" /\ ret # NoCountry

\* C1: an exception raised inside one step of _call_tools (currency, market,
\* location) is caught and recorded as the error of that step only, in results
\* and in the trace; the steps after it still run: the market step runs
\* whatever the outcome of the currency step, and the location step runs
\* whenever its own condition holds.
C1_StepExceptionsStayInTheirStep ==
    ret # NoCountry =>
        /\ Len(intermediate_steps) = Len(calls)
        /\ \A i \in DOMAIN calls :
             LET key == ResultKey(calls[i].tool)
                 step == intermediate_steps[i]
             IN  /\ step.tool = calls[i].tool
                 /\ key \in DOMAIN results
                 /\ IF calls[i].out.raised
                    THEN /\ DOMAIN step = {"tool", "input", "error"}
                         /\ step.error = calls[i].out.exc
                         /\ results[key] = StepError(calls[i].tool, calls[i].out.exc)
                    ELSE /\ DOMAIN step = {"tool", "input", "output"}
                         /\ results[key] = calls[i].out.val
        /\ pc = "market" => ToolsCalled = <<"get_currency_info">>
        /\ pc = "location" =>
              ToolsCalled = <<"get_currency_info", "get_stock_market_info">>
        /\ (pc = "format" \/ Returned) =>
              ToolsCalled =
                  <<"get_currency_info", "get_stock_market_info">>
                  \o (IF LocationWanted(results, maps_key)
                      THEN <<"get_exchange_location">> ELSE <<>>)

\* C1 witness: a returned run whose currency step raised, whose market step
\* returned its text and whose location step raised
C1_Witness ==
    /\ Returned
    /\ Len(calls) = 3
    /\ calls[1].out.raised
    /\ ~calls[2].out.raised
    /\ calls[3].out.raised

\* C2: the location lookup is called only if the market lookup of the run
\* resolved a primary exchange (it neither raised nor returned a lookup error)
\* and a maps API key is configured.
C2_LocationOnlyAfterResolvedExchange ==
    \A i \in DOMAIN calls :
        calls[i].tool = "get_exchange_location" =>
            /\ maps_key
            /\ ~calls[2].out.raised
            /\ "error" \notin DOMAIN get_exchange_info(country)

\* the failures whose text the report shows
Surfaced == {"currency", "currency lookup", "market", "market lookup", "index fetch"}

\* C3 as stated: the report of a run contains the error text of every
\* failure of the run (currency lookup, rate fetch, market lookup, location
\* lookup).
C3_EveryFailureIsInTheReport ==
    (Returned /\ ret.success) =>
        \A f \in failures : Contains(ret.output, f.text)

\* C3 as amended: the report contains the error text of a failed currency
\* lookup, of a failed market lookup or index fetch and of an exception raised
\* by the currency or market step; the error of a failed rate fetch or of a
\* failed location step is not rendered.
C3_SurfacedFailures ==
    (Returned /\ ret.success) =>
        \A f \in failures :
            Contains(ret.output, f.text) <=> f.step \in Surfaced

\* C3 witness: a report of a run whose rate fetch failed and whose market
\* lookup failed
C3_Witness ==
    /\ Returned
    /\ ret.success
    /\ \E f \in failures : f.step = "rate fetch"
    /\ \E f \in failures : f.step = "market lookup"

\* C4: query and get_financial_info return a record whatever the tools do;
\* get_financial_info returns success = TRUE and the rendered report even
\* when every step failed.
C4_EntryPointsAlwaysReturn ==
    (pc = "idle" /\ entry # "none") =>
        /\ {"success", "output"} \subseteq DOMAIN ret
        /\ entry = "get_financial_info" =>
              /\ ret.success
              /\ ret.output = _format_output(country, results)
              /\ ret.intermediate_steps = intermediate_steps
        /\ entry = "query" => (ret.success \/ ret = NoCountry)

\* C4 witness: get_financial_info returned after its currency step and its
\* market step both raised
C4_Witness ==
    /\ pc = "idle"
    /\ entry = "get_financial_info"
    /\ Len(calls) = 2
    /\ calls[1].out.raised
    /\ calls[2].out.raised
    /\ ret.success

\* ------------------------------------------------------------------ properties of the tools

\* the name is a key of the currency table, case and surrounding blanks aside
KnownCurrency(country_name) == strip(lower(country_name)) \in DOMAIN country_currency_map

\* the name is a key of the exchange table, case and surrounding blanks aside
KnownExchange(country_name) == strip(lower(country_name)) \in DOMAIN stock_exchanges

\* C5: whatever the rate API answers (transport error, HTTP error status,
\* non-"success" result, a body that is not the expected JSON object),
\* get_exchange_rates returns a record with an error field, so that
\* get_currency_info and execute_tool return a value and raise nothing.
C5_NoToolRaises ==
    /\ tool.op \in {"get_exchange_rates", "get_all_rates_for_country",
                    "get_currency_info", "execute_tool"} =>
          ~tool.out.raised
    /\ (tool.op = "get_exchange_rates" /\ tool.resp.kind # "success") =>
          (~tool.out.raised /\ "error" \in DOMAIN tool.out.val)

\* C6 as stated: for a known country whose rate lookup returns an error,
\* get_all_rates_for_country returns that error: a record with a top-level
\* error field.
C6_RateErrorIsReturnedAsTheError ==
    (/\ tool.op = "get_all_rates_for_country"
     /\ KnownCurrency(tool.country_name)
     /\ ~tool.out.raised
     /\ (~api_key \/ tool.resp.kind \in {"transport_error", "http_error", "api_error"}))
    => "error" \in DOMAIN tool.out.val

\* C6 as amended: for an unknown country get_all_rates_for_country returns the
\* lookup error; for a known country whose rate lookup returns an error it
\* returns the merged record (country, currency_code, currency_name) with that
\* error under exchange_rates and no top-level error field.
C6_RateErrorIsNested ==
    (tool.op = "get_all_rates_for_country" /\ ~tool.out.raised) =>
        IF ~KnownCurrency(tool.country_name)
        THEN /\ DOMAIN tool.out.val = {"error"}
             /\ tool.out.val = get_country_currency(tool.country_name)
        ELSE /\ DOMAIN tool.out.val =
                    {"country", "currency_code", "currency_name", "exchange_rates"}
             /\ tool.out.val.currency_code =
                    country_currency_map[strip(lower(tool.country_name))].code
             /\ (~api_key \/ tool.resp.kind \in {"transport_error", "http_error", "api_error"})
                    => DOMAIN tool.out.val.exchange_rates = {"error"}
             /\ ~api_key =>
                    tool.out.val.exchange_rates.error
                        = <<"EXCHANGERATE_API_KEY not configured">>

\* C6 witness: a known country, a transport error of the rate API
C6_Witness ==
    /\ tool.op = "get_all_rates_for_country"
    /\ KnownCurrency(tool.country_name)
    /\ api_key
    /\ tool.resp.kind = "transport_error"
    /\ ~tool.out.raised

\* C7: get_country_currency performs no request and returns a record with
\* currency_code exactly when the lower-cased, trimmed name is a key of the
\* currency table, and otherwise an error record with no currency field; for a
\* country absent from the currency table get_all_rates_for_country and
\* get_currency_info make no rate request, and for a country absent from the
\* exchange table get_stock_market_info makes no market-data request.
C7_AbsentCountryMakesNoRequest ==
    /\ tool.op = "get_country_currency" =>
          /\ tool.out.net = <<>>
          /\ ~tool.out.raised
          /\ IF KnownCurrency(tool.country_name)
             THEN /\ DOMAIN tool.out.val = {"country", "currency_code", "currency_name"}
                  /\ tool.out.val.currency_code =
                         country_currency_map[strip(lower(tool.country_name))].code
             ELSE DOMAIN tool.out.val = {"error"}
    /\ (/\ tool.op \in {"get_all_rates_for_country", "get_currency_info"}
        /\ ~KnownCurrency(tool.country_name))
       => tool.out.net = <<>>
    /\ (/\ tool.op \in {"get_stock_market_info", "get_index_values"}
        /\ ~KnownExchange(tool.country_name))
       => tool.out.net = <<>>
    /\ (/\ tool.op = "execute_tool"
        /\ tool.tool_name = "get_currency_info"
        /\ ~KnownCurrency(Param(tool.parameters, "country_name")))
       => tool.out.net = <<>>
    /\ (/\ tool.op = "execute_tool"
        /\ tool.tool_name = "get_stock_market_info"
        /\ ~KnownExchange(Param(tool.parameters, "country_name")))
       => tool.out.net = <<>>

\* C7 witness: get_currency_info of a country absent from the currency
\* table, with the rate API key configured
C7_Witness ==
    /\ tool.op = "get_currency_info"
    /\ api_key
    /\ ~KnownCurrency(tool.country_name)
    /\ tool.out.net = <<>>

\* C8: get_all_rates_for_country never asks for the base currency among the
\* targets, so the rates it returns hold no entry for the base currency; for
\* a base outside USD, EUR, GBP, INR all four targets are asked for.
C8_BaseIsNeverATarget ==
    /\ \A k \in DOMAIN country_currency_map :
          LET base == country_currency_map[k].code
          IN  /\ base \notin Range(TargetsFor(base))
              /\ Range(TargetsFor(base)) = {"USD", "EUR", "GBP", "INR"} \ {base}
              /\ Len(TargetsFor(base)) = Cardinality({"USD", "EUR", "GBP", "INR"} \ {base})
    /\ (/\ tool.op = "get_all_rates_for_country"
        /\ ~tool.out.raised
        /\ "exchange_rates" \in DOMAIN tool.out.val
        /\ "rates" \in DOMAIN tool.out.val.exchange_rates)
       => LET base == tool.out.val.currency_code
              rates == tool.out.val.exchange_rates.rates
          IN  /\ ~HasKey(rates, base)
              /\ Range(Keys(rates)) = {"USD", "EUR", "GBP", "INR"} \ {base}
              /\ Len(rates) = Cardinality({"USD", "EUR", "GBP", "INR"} \ {base})

\* C8 witness: the rates of a country whose base currency is one of the four
\* targets, quoted by the API
C8_Witness ==
    /\ tool.op = "get_all_rates_for_country"
    /\ ~tool.out.raised
    /\ "exchange_rates" \in DOMAIN tool.out.val
    /\ "rates" \in DOMAIN tool.out.val.exchange_rates
    /\ tool.out.val.currency_code = "INR"
    /\ "INR" \in DOMAIN tool.resp.conversion_rates

\* C9: on a "success" response the rates of get_exchange_rates have exactly
\* the requested targets as keys: a target the response quotes maps to its
\* rate, a target it lacks maps to "Not available", and the call is no error.
C9_MissingTargetsAreMarked ==
    (tool.op = "get_exchange_rates" /\ api_key /\ tool.resp.kind = "success") =>
        /\ ~tool.out.raised
        /\ "error" \notin DOMAIN tool.out.val
        /\ Range(Keys(tool.out.val.rates)) = Range(tool.target_currencies)
        /\ Len(tool.out.val.rates) = Cardinality(Range(tool.target_currencies))
        /\ \A t \in Range(tool.target_currencies) :
              Get(tool.out.val.rates, t) =
                  IF t \in DOMAIN tool.resp.conversion_rates
                  THEN Num(tool.resp.conversion_rates[t])
                  ELSE Text(<<"Not available">>)

\* C9 witness: a "success" response that lacks one requested target and
\* quotes another
C9_Witness ==
    /\ tool.op = "get_exchange_rates"
    /\ api_key
    /\ tool.resp.kind = "success"
    /\ \E t \in Range(tool.target_currencies) : t \notin DOMAIN tool.resp.conversion_rates
    /\ \E t \in Range(tool.target_currencies) : t \in DOMAIN tool.resp.conversion_rates

\* the entry of get_index_values' result for the i-th index of the country
EntryOf(i) == Get(tool.out.val.indices, IndicesOf(tool.country_name)[i].name)

\* what the provider gave for the i-th index of the country
FetchedOf(i) == tool.fetch[IndicesOf(tool.country_name)[i].symbol]

\* C10: for a country of the exchange table get_index_values returns exactly
\* one entry per index of the country; a ticker whose fetch raises or whose
\* history is empty gives an error entry for that index only ("No data
\* available" for an empty history), and every other ticker is still fetched
\* and reports its own outcome, in whatever order the failures come.
C10_TickerFailuresStayPerIndex ==
    (tool.op = "get_index_values" /\ KnownExchange(tool.country_name)) =>
        LET indices == IndicesOf(tool.country_name)
        IN  /\ ~tool.out.raised
            /\ Keys(tool.out.val.indices) = [i \in DOMAIN indices |-> indices[i].name]
            /\ tool.out.net =
                   [i \in DOMAIN indices |-> [api |-> "ticker", arg |-> indices[i].symbol]]
            /\ \A i \in DOMAIN indices :
                  /\ EntryOf(i).symbol = indices[i].symbol
                  /\ FetchedOf(i).kind = "empty" =>
                        EntryOf(i) = [symbol |-> indices[i].symbol,
                                      error |-> <<"No data available">>]
                  /\ FetchedOf(i).kind = "raise" =>
                        /\ DOMAIN EntryOf(i) = {"symbol", "error"}
                        /\ StartsWith(EntryOf(i).error, <<"Failed to fetch data: ">>)
                  /\ (FetchedOf(i).kind = "ok" /\ FetchedOf(i).info # [previousClose |-> None]) =>
                        /\ "error" \notin DOMAIN EntryOf(i)
                        /\ EntryOf(i).current_value =
                               FetchedOf(i).closes[Len(FetchedOf(i).closes)]

\* C10 witness: the first ticker's fetch raises, the second has a history,
\* and a later one fails again
C10_Witness ==
    /\ tool.op = "get_index_values"
    /\ Len(IndicesOf(tool.country_name)) >= 3
    /\ FetchedOf(1).kind = "raise"
    /\ FetchedOf(2).kind = "ok"
    /\ FetchedOf(3).kind = "empty"
    /\ "error" \notin DOMAIN EntryOf(2)


\* C11 as stated: whenever a ticker's history has one close, the entry's
\* previous_close equals its current value and its change is 0.
C11_SingleCloseMeansNoChange ==
    (tool.op = "get_index_values" /\ KnownExchange(tool.country_name)) =>
        \A i \in DOMAIN IndicesOf(tool.country_name) :
            (FetchedOf(i).kind = "ok" /\ Len(FetchedOf(i).closes) = 1) =>
                /\ "error" \notin DOMAIN EntryOf(i)
                /\ EntryOf(i).previous_close = EntryOf(i).current_value
                /\ EntryOf(i).change = 0

\* C11 as amended: for a history of one close, when the provider's metadata
\* has no previousClose the entry's previous_close equals its current value
\* and its change and change_percent are 0; when the metadata has a numeric
\* previousClose that value is the previous_close and the change is the
\* current value minus it; when the metadata's previousClose is None the
\* entry is an error entry.
C11_SingleCloseFallsBackOnlyWithoutMetadata ==
    (tool.op = "get_index_values" /\ KnownExchange(tool.country_name)) =>
        \A i \in DOMAIN IndicesOf(tool.country_name) :
            (FetchedOf(i).kind = "ok" /\ Len(FetchedOf(i).closes) = 1) =>
                LET info == FetchedOf(i).info
                    current_price == FetchedOf(i).closes[1]
                IN  IF "previousClose" \notin DOMAIN info
                    THEN /\ "error" \notin DOMAIN EntryOf(i)
                         /\ EntryOf(i).current_value = current_price
                         /\ EntryOf(i).previous_close = current_price
                         /\ EntryOf(i).change = 0
                         /\ EntryOf(i).change_percent = 0
                    ELSE IF IsNumber(info.previousClose)
                    THEN /\ "error" \notin DOMAIN EntryOf(i)
                         /\ EntryOf(i).previous_close = info.previousClose.num
                         /\ EntryOf(i).change = current_price - info.previousClose.num
                    ELSE DOMAIN EntryOf(i) = {"symbol", "error"}

\* C11 witness: a ticker with a history of one close and no previousClose in
\* its metadata, reported with change 0
C11_Witness ==
    /\ tool.op = "get_index_values"
    /\ \E i \in DOMAIN IndicesOf(tool.country_name) :
          /\ FetchedOf(i).kind = "ok"
          /\ Len(FetchedOf(i).closes) = 1
          /\ "previousClose" \notin DOMAIN FetchedOf(i).info
          /\ "error" \notin DOMAIN EntryOf(i)
          /\ EntryOf(i).change = 0


\* the previous close the loop body of get_index_values takes for the i-th
\* index: the metadata's previousClose if present, else the prior close of the
\* history, else the only close
PreviousCloseOf(i) ==
    LET hist == FetchedOf(i).closes
    IN  IF "previousClose" \in DOMAIN FetchedOf(i).info
        THEN FetchedOf(i).info.previousClose
        ELSE Num(IF Len(hist) > 1 THEN hist[Len(hist) - 1] ELSE hist[Len(hist)])

\* C12: whenever the previous close of a ticker is 0 (from the metadata or
\* from the history), the index entry is a success entry whose previous_close
\* is 0, whose change is the current value and whose change_percent is 0: the
\* division is not performed and no error entry is produced.
C12_ZeroPreviousCloseGivesZeroPercent ==
    (tool.op = "get_index_values" /\ KnownExchange(tool.country_name)) =>
        /\ ~tool.out.raised
        /\ \A i \in DOMAIN IndicesOf(tool.country_name) :
              (FetchedOf(i).kind = "ok" /\ PreviousCloseOf(i) = Num(0)) =>
                  /\ DOMAIN EntryOf(i) = {"symbol", "current_value", "previous_close",
                                          "change", "change_percent", "last_updated"}
                  /\ EntryOf(i).previous_close = 0
                  /\ EntryOf(i).change = EntryOf(i).current_value
                  /\ EntryOf(i).change_percent = 0

\* C12 witness: a ticker whose metadata gives a previous close of 0 while its
\* latest close is not 0
C12_Witness ==
    /\ tool.op = "get_index_values"
    /\ \E i \in DOMAIN IndicesOf(tool.country_name) :
          /\ FetchedOf(i).kind = "ok"
          /\ FetchedOf(i).info = [previousClose |-> Num(0)]
          /\ EntryOf(i).current_value # 0
          /\ EntryOf(i).change_percent = 0


\* the notice get_map_html returns in place of the iframe
Placeholder == <<"<p>Google Maps API key not configured</p>">>

\* C13: with no maps API key configured, for every exchange name, in the
\* location table or not, get_embed_url returns the empty string and
\* get_map_html returns the placeholder notice; neither they nor
\* get_location_info (called directly or through execute_tool) raise, and the
\* record of get_location_info carries the empty URL and, for a known
\* exchange, the placeholder.
C13_NoMapsKeyGivesEmptyUrlAndPlaceholder ==
    ~maps_key =>
        /\ tool.op = "get_embed_url" =>
              (~tool.out.raised /\ tool.out.val = <<>>)
        /\ tool.op = "get_map_html" =>
              (~tool.out.raised /\ tool.out.val = Placeholder)
        /\ tool.op = "get_location_info" =>
              /\ ~tool.out.raised
              /\ tool.out.val.map_url = <<>>
              /\ tool.exchange_name \in DOMAIN exchange_locations =>
                    tool.out.val.map_html = Placeholder
        /\ (tool.op = "execute_tool" /\ tool.tool_name = "get_exchange_location") =>
              (~tool.out.raised /\ tool.out.val.map_url = <<>>)

\* C13 witness: without a maps key, the map HTML of an exchange of the table
C13_Witness ==
    /\ ~maps_key
    /\ tool.op = "get_map_html"
    /\ tool.exchange_name \in DOMAIN exchange_locations
    /\ tool.out.val = Placeholder


\* ------------------------------------------------------------------ end-to-end properties

\* the run is about the country whose name, lower-cased and trimmed, is name
RunAbout(name) == Returned /\ ret.success /\ strip(lower(country)) = lower(name)

\* no tool call of the run was cut short by a fault outside the tools' code
NoFault == \A i \in DOMAIN calls : calls[i].out # Fault

\* C14: the report of a run about "Japan" contains the currency code "JPY"
\* and the primary exchange "Tokyo Stock Exchange" for every outcome of the
\* rate fetch and of the market-data fetches, and, if a maps key is
\* configured, the address text "Nihonbashi-Kabutocho".
C14_JapanReport ==
    (RunAbout(InJapan) /\ NoFault) =>
        /\ Contains(ret.output, <<"JPY">>)
        /\ Contains(ret.output, <<"Tokyo", " ", "Stock", " ", "Exchange">>)
        /\ maps_key => Contains(ret.output, <<"Nihonbashi-Kabutocho">>)


\* C15: a run about a country that is in neither static table returns a
\* report that contains the currency-lookup error and the market-lookup
\* error; the run makes no external call (no rate request, no market-data
\* request, no location lookup) and the caller gets a record, no exception.
C15_UnknownCountryReport ==
    (/\ Returned
     /\ NoFault
     /\ ~KnownCurrency(country)
     /\ ~KnownExchange(country))
    => /\ ret.success
       /\ Contains(ret.output, <<"Error: ">> \o get_country_currency(country).error)
       /\ Contains(ret.output, <<"Error: ">> \o get_exchange_info(country).error)
       /\ net = <<>>
       /\ ToolsCalled = <<"get_currency_info", "get_stock_market_info">>


\* C16: whenever the country resolver returns the empty string, query returns
\* its failure record (success FALSE, no report) at once: no tool is called
\* and no request is made, and a query that goes on to the tools has a
\* country that is not empty.
C16_EmptyCountryCallsNoTool ==
    entry = "query" =>
        IF country = <<>>
        THEN /\ pc = "idle"
             /\ ret = NoCountry
             /\ ~ret.success
             /\ calls = <<>>
             /\ net = <<>>
        ELSE ret # NoCountry

\* C16 witness: query returned its failure record, and no tool was called
C16_Witness ==
    /\ entry = "query"
    /\ pc = "idle"
    /\ country = <<>>
    /\ ret = NoCountry
    /\ calls = <<>>


\* ------------------------------------------------------------------ properties of the server

\* the names list_tools lists
ListedNames == {list_tools[i].name : i \in DOMAIN list_tools}

\* the parameter name list_tools declares as required for a listed tool
RequiredOf(tool_name) ==
    list_tools[CHOOSE i \in DOMAIN list_tools : list_tools[i].name = tool_name].required

\* the outcome of the listed tool called with arg under the conditions of the
\* execute_tool call in progress
Direct(tool_name, arg) ==
    CASE tool_name = "get_currency_info" ->
            get_currency_info(api_key, arg, tool.resp)
      [] tool_name = "get_stock_market_info" ->
            get_stock_market_info(arg, tool.fetch)
      [] tool_name = "get_exchange_location" ->
            get_exchange_location(maps_key, arg)

\* C17: execute_tool dispatches the three names list_tools lists, and no
\* other: for a listed name it returns what the tool returns for the value of
\* the parameter list_tools declares as required, the empty string when that
\* parameter is missing, which gives a lookup error, no request and no
\* exception; for any other name it returns {error: "Unknown tool: <name>"}
\* and no tool runs.
C17_DispatchMatchesListTools ==
    /\ Cardinality(ListedNames) = 3
    /\ Len(list_tools) = 3
    /\ tool.op = "execute_tool" =>
          IF tool.tool_name \in ListedNames
          THEN LET required == RequiredOf(tool.tool_name)
               IN  /\ tool.out = Direct(tool.tool_name, Param(tool.parameters, required))
                   /\ required \notin DOMAIN tool.parameters =>
                         /\ tool.out = Direct(tool.tool_name, <<>>)
                         /\ ~tool.out.raised
                         /\ tool.out.net = <<>>
                         /\ IF tool.tool_name = "get_exchange_location"
                            THEN "error" \in DOMAIN tool.out.val
                            ELSE StartsWith(tool.out.val, <<"Error: ">>)
          ELSE /\ tool.out = Ret([error |-> <<"Unknown tool: ", tool.tool_name>>], <<>>)
               /\ tool.out.net = <<>>

\* C17 witness: the location tool executed with parameters that hold a
\* country_name and no exchange_name
C17_Witness ==
    /\ tool.op = "execute_tool"
    /\ tool.tool_name = "get_exchange_location"
    /\ "country_name" \in DOMAIN tool.parameters
    /\ "exchange_name" \notin DOMAIN tool.parameters
    /\ "error" \in DOMAIN tool.out.val


\* ------------------------------------------------------------------ properties of the maps tools

\* C18: get_location_info raises nothing and returns a record whose exchange
\* field is its input; for an exchange of the location table the record has
\* the table's address and coordinates, a map URL and the map HTML and no
\* error field; for any other name it has the error field and a map URL and
\* neither address nor coordinates.  With or without a maps key.
C18_LocationRecordShape ==
    tool.op = "get_location_info" =>
        /\ ~tool.out.raised
        /\ tool.out.val.exchange = tool.exchange_name
        /\ IF tool.exchange_name \in DOMAIN exchange_locations
           THEN /\ DOMAIN tool.out.val =
                       {"exchange", "address", "coordinates", "map_url", "map_html"}
                /\ tool.out.val.address = exchange_locations[tool.exchange_name].address
                /\ tool.out.val.coordinates =
                       [latitude |-> exchange_locations[tool.exchange_name].lat,
                        longitude |-> exchange_locations[tool.exchange_name].lng]
                /\ tool.out.val.map_url = get_embed_url(maps_key, tool.exchange_name)
                /\ tool.out.val.map_html = get_map_html(maps_key, tool.exchange_name)
           ELSE /\ DOMAIN tool.out.val = {"exchange", "error", "map_url"}
                /\ tool.out.val.error = <<"Location information not available">>
                /\ tool.out.val.map_url = get_embed_url(maps_key, tool.exchange_name)
        /\ ("address" \in DOMAIN tool.out.val) # ("error" \in DOMAIN tool.out.val)

\* C18 witness: the record of an exchange of the table asked for without a
\* maps key
C18_Witness ==
    /\ tool.op = "get_location_info"
    /\ ~maps_key
    /\ tool.exchange_name \in DOMAIN exchange_locations
    /\ "address" \in DOMAIN tool.out.val


\* the URL of the embed template for a query text, blanks written as "+"
EmbedTemplate(query) ==
    <<"https://www.google.com/maps/embed/v1/place?key=">> \o MapsKeyText
    \o <<"&q=">> \o replace(query, <<" ">>, <<"+">>) \o <<"&zoom=15">>

\* C19: with a maps API key configured, every URL get_embed_url returns
\* follows the template .../embed/v1/place?key={key}&q={query}&zoom=15, the
\* query being the stored query string for an exchange of the table and the
\* raw exchange name for any other.
C19_EveryUrlFollowsTheTemplate ==
    (tool.op = "get_embed_url" /\ maps_key) =>
        tool.out.val =
            EmbedTemplate(IF tool.exchange_name \in DOMAIN exchange_locations
                          THEN exchange_locations[tool.exchange_name].query
                          ELSE tool.exchange_name)


\* ------------------------------------------------------------------ properties of the trace

\* the text a step's trace entry holds for the value its tool returned
TraceOutput(tool_name, val) ==
    IF tool_name = "get_exchange_location" THEN str(val) ELSE Traced(val)

\* C20: during and after every run of _call_tools the trace holds exactly one
\* entry per tool call made so far, in the order of the calls, with the
\* call's tool and input; the entry of a call that returned has the output
\* field and no error field, the entry of a call that raised has the error
\* field and no output field.  When the run is over the trace is
\* get_currency_info, get_stock_market_info and then get_exchange_location if
\* and only if the location step ran, and it is the trace the caller gets.
C20_TraceHoldsOneEntryPerStep ==
    ret # NoCountry =>
        /\ Len(intermediate_steps) = Len(calls)
        /\ \A i \in DOMAIN intermediate_steps :
              LET step == intermediate_steps[i]
              IN  /\ step.tool = calls[i].tool
                  /\ step.input = calls[i].input
                  /\ ("output" \in DOMAIN step) # ("error" \in DOMAIN step)
                  /\ IF calls[i].out.raised
                     THEN step = [tool |-> calls[i].tool, input |-> calls[i].input,
                                  error |-> calls[i].out.exc]
                     ELSE step = [tool |-> calls[i].tool, input |-> calls[i].input,
                                  output |-> TraceOutput(calls[i].tool, calls[i].out.val)]
        /\ (pc = "format" \/ Returned) =>
              /\ Len(intermediate_steps) \in {2, 3}
              /\ intermediate_steps[1].tool = "get_currency_info"
              /\ intermediate_steps[2].tool = "get_stock_market_info"
              /\ Len(intermediate_steps) = 3 =>
                    intermediate_steps[3].tool = "get_exchange_location"
              /\ Len(intermediate_steps) = 3 <=>
                    "location_info" \in DOMAIN results
        /\ Returned => ret.intermediate_steps = intermediate_steps

\* C20 witness: a returned run of three steps whose currency step raised and
\* whose location step returned a record
C20_Witness ==
    /\ Returned
    /\ Len(intermediate_steps) = 3
    /\ "error" \in DOMAIN intermediate_steps[1]
    /\ "output" \in DOMAIN intermediate_steps[2]
    /\ "output" \in DOMAIN intermediate_steps[3]


\* ------------------------------------------------------------------ properties of a whole run

\* how many of the run's requests so far satisfy Test
Requests(Test(_)) == Cardinality({i \in DOMAIN net : Test(net[i])})

\* how many times the run called the tool so far
CallsOf(tool_name) == Cardinality({i \in DOMAIN calls : calls[i].tool = tool_name})

\* C21: within one run the rate API is requested at most once, each index
\* ticker of the country at most once (and no other ticker at all), and each
\* of the three tools is called at most once, the location lookup included,
\* whether or not the call failed.
C21_NoRetry ==
    LET IsRate(r) == r.api = "rate"
        Tickers == {IndicesOf(country)[i].symbol : i \in DOMAIN IndicesOf(country)}
    IN  /\ Requests(IsRate) <= 1
        /\ \A r \in Range(net) : r.api = "ticker" => r.arg \in Tickers
        /\ \A t \in Tickers :
              LET IsTicker(r) == r.api = "ticker" /\ r.arg = t
              IN  Requests(IsTicker) <= 1
        /\ CallsOf("get_currency_info") <= 1
        /\ CallsOf("get_stock_market_info") <= 1
        /\ CallsOf("get_exchange_location") <= 1

\* C21 witness: a returned run whose one rate request failed, one of whose
\* ticker fetches failed and whose location lookup raised
C21_Witness ==
    /\ Returned
    /\ \E f \in failures : f.step = "rate fetch" /\ f.text # <<"EXCHANGERATE_API_KEY not configured">>
    /\ \E f \in failures : f.step = "index fetch"
    /\ \E f \in failures : f.step = "location"
    /\ \E i \in DOMAIN net : net[i].api = "rate"


\* C22: without a rate-API key the run does not fail: no rate request is
\* made, the rate lookup's outcome is the error value "EXCHANGERATE_API_KEY
\* not configured", and for a country of the currency table get_currency_info
\* still returns a text that is no error and holds the currency's name and
\* code; the market step runs next, and the location step after it whenever
\* a primary exchange was read and a maps key is configured, as with the key.
C22_MissingRateKeyIsNotFatal ==
    (~api_key /\ ret # NoCountry) =>
        /\ \A r \in Range(net) : r.api # "rate"
        /\ get_exchange_rates(api_key, "JPY", TargetsFor("JPY"), NoResponse)
              = Ret([error |-> <<"EXCHANGERATE_API_KEY not configured">>], <<>>)
        /\ (Len(calls) >= 1 /\ KnownCurrency(country)) =>
              LET entry_ == country_currency_map[strip(lower(country))]
                  text == calls[1].out.val
              IN  /\ ~calls[1].out.raised
                  /\ ~StartsWith(text, <<"Error: ">>)
                  /\ Contains(text, entry_.name)
                  /\ Contains(text, <<entry_.code>>)
                  /\ [step |-> "rate fetch",
                      text |-> <<"EXCHANGERATE_API_KEY not configured">>] \in failures
        /\ Len(calls) >= 1 => pc # "currency"
        /\ (pc = "format" \/ Returned) =>
              /\ CallsOf("get_stock_market_info") = 1
              /\ CallsOf("get_exchange_location") =
                    (IF LocationWanted(results, maps_key) THEN 1 ELSE 0)
        /\ Returned => ret.success

\* C22 witness: a returned run about a country of both tables, made with a
\* maps key and no rate key, whose location step ran
C22_Witness ==
    /\ ~api_key
    /\ maps_key
    /\ Returned
    /\ KnownCurrency(country)
    /\ KnownExchange(country)
    /\ CallsOf("get_exchange_location") = 1


\* C23: for every country of the exchange table the market step leaves in
\* results, as the primary exchange the location lookup is then called with,
\* exactly the primary_exchange of the country's table entry: the name read
\* back from the formatted market text equals the table's.
C23_ExtractedExchangeIsTheTableEntry ==
    tool.op = "_call_tools step 2" =>
        /\ ~tool.out.raised
        /\ "primary_exchange" \in DOMAIN tool.out.val
        /\ tool.out.val["primary_exchange"] =
               stock_exchanges[tool.country_name].primary_exchange
        /\ LocationWanted(tool.out.val, TRUE)

\* C23 witness: the market step of a country whose table entry lists several
\* exchanges before the primary one is named
C23_Witness ==
    /\ tool.op = "_call_tools step 2"
    /\ Len(stock_exchanges[tool.country_name].exchanges) >= 2
    /\ "primary_exchange" \in DOMAIN tool.out.val
    /\ tool.out.val["primary_exchange"] =
           stock_exchanges[tool.country_name].primary_exchange


\* C24: in get_index_values a ticker with a non-empty history always gets a
\* success entry: previous_close is the metadata's value when the metadata
\* has one, otherwise the second-to-last close of a history of two or more,
\* otherwise the latest close; change is the latest close minus
\* previous_close; change_percent is change / previous_close x 100, or 0 when
\* previous_close is zero or absent.
C24_PreviousCloseChain ==
    (tool.op = "get_index_values" /\ KnownExchange(tool.country_name)) =>
        \A i \in DOMAIN IndicesOf(tool.country_name) :
            FetchedOf(i).kind = "ok" =>
                LET hist == FetchedOf(i).closes
                    info == FetchedOf(i).info
                    latest == hist[Len(hist)]
                    previous ==
                        IF "previousClose" \in DOMAIN info /\ IsNumber(info.previousClose)
                        THEN info.previousClose.num
                        ELSE IF Len(hist) >= 2 THEN hist[Len(hist) - 1]
                        ELSE latest
                IN  /\ "error" \notin DOMAIN EntryOf(i)
                    /\ EntryOf(i).current_value = latest
                    /\ EntryOf(i).previous_close = previous
                    /\ EntryOf(i).change = latest - previous
                    /\ EntryOf(i).change_percent =
                           (IF previous = 0 THEN 0
                            ELSE RoundDiv((latest - previous) * 10000, previous))


\* ------------------------------------------------------------------ properties of the resolver

\* C25: for every phrase of the phrase list, in any letter case, and every
\* country name of the static tables, the query "<phrase> <country>" resolves
\* to the title-cased country name alone.
C25_EveryPhraseIsStripped ==
    (tool.op = "_extract_country_name" /\ tool.phrase # <<>>) =>
        tool.out.val = title(tool.key)


\* ------------------------------------------------------------------ properties of the static tables

\* the primary exchanges of the exchange table
PrimaryExchanges == {stock_exchanges[k].primary_exchange : k \in DOMAIN stock_exchanges}

\* C26: every primary_exchange of the exchange table is a key of the location
\* table, so get_location_info called with the primary exchange the market
\* step leaves for a table country, or with any primary exchange of the
\* table, returns the address record and never the error "Location
\* information not available".
C26_PrimaryExchangesHaveLocations ==
    /\ PrimaryExchanges \subseteq DOMAIN exchange_locations
    /\ tool.op = "_call_tools step 2" =>
          LET location == get_location_info(maps_key, tool.out.val["primary_exchange"])
          IN  /\ "error" \notin DOMAIN location
              /\ location.address =
                     exchange_locations[stock_exchanges[tool.country_name].primary_exchange].address
    /\ (tool.op = "get_location_info" /\ tool.exchange_name \in PrimaryExchanges) =>
          (~tool.out.raised /\ "error" \notin DOMAIN tool.out.val)

\* C26 witness: the market step of a table country, whose primary exchange
\* has its location record
C26_Witness ==
    /\ tool.op = "_call_tools step 2"
    /\ maps_key
    /\ tool.out.val["primary_exchange"] \in DOMAIN exchange_locations
    /\ "address" \in DOMAIN get_location_info(maps_key, tool.out.val["primary_exchange"])


\* C27: every country key of the exchange table is a key of the currency
\* table, so a run whose market lookup succeeds reports no currency-lookup
\* error for the same country.
C27_ExchangeCountriesHaveCurrencies ==
    (Returned /\ Len(calls) >= 2 /\ KnownExchange(country)) =>
        /\ strip(lower(country)) \in DOMAIN country_currency_map
        /\ \A f \in failures : f.step # "currency lookup"


\* C28: over any sequence of get_financial_info and query calls on one agent
\* the trace never holds more than the steps of one call: a call that goes on
\* to the tools starts from an empty trace, and between calls the trace holds
\* the 2 or 3 entries of the last call that reached the tools (none before
\* the first), get_currency_info, get_stock_market_info and then
\* get_exchange_location.  A query whose resolved country is empty leaves the
\* trace as it was and returns a record with no intermediate_steps field.
C28_TraceIsOfTheLastToolRun ==
    /\ [](/\ Len(intermediate_steps) <= 3
          /\ pc = "idle" => Len(intermediate_steps) \in {0, 2, 3}
          /\ (pc = "idle" /\ Len(intermediate_steps) = 0) =>
                (entry = "none" \/ ret = NoCountry)
          /\ \A i \in DOMAIN intermediate_steps :
                intermediate_steps[i].tool =
                    <<"get_currency_info", "get_stock_market_info",
                      "get_exchange_location">>[i]
          /\ Returned => ret.intermediate_steps = intermediate_steps)
    /\ [][(pc = "idle" /\ pc' = "currency") => intermediate_steps' = <<>>]_vars
    /\ [][(pc = "idle" /\ entry' = "query" /\ country' = <<>>) =>
              /\ intermediate_steps' = intermediate_steps
              /\ ret' = NoCountry
              /\ "intermediate_steps" \notin DOMAIN ret']_vars

\* C28 witness: a query with no country returned its failure record while
\* the trace still holds the three steps of the call before it
C28_Witness ==
    /\ entry = "query"
    /\ pc = "idle"
    /\ ret = NoCountry
    /\ Len(intermediate_steps) = 3


\* C29: for every key of the currency and exchange tables, written alone in
\* any letter case and with blanks around it, the resolver returns the
\* title-cased key, which the lookups lower-case and trim back to that same
\* key and so map to the key's own entry; no phrase of the phrase list
\* occurs inside the key.
C29_BareCountryNameSurvives ==
    (tool.op = "_extract_country_name" /\ tool.phrase = <<>>) =>
        /\ tool.out.val = title(tool.key)
        /\ strip(lower(tool.out.val)) = tool.key
        /\ \A i \in DOMAIN Phrases : ~Contains(tool.key, Phrases[i])
        /\ tool.key \in DOMAIN country_currency_map =>
              /\ "error" \notin DOMAIN get_country_currency(tool.out.val)
              /\ get_country_currency(tool.out.val).currency_code =
                     country_currency_map[tool.key].code
        /\ tool.key \in DOMAIN stock_exchanges =>
              /\ "error" \notin DOMAIN get_exchange_info(tool.out.val)
              /\ get_exchange_info(tool.out.val).primary_exchange =
                     stock_exchanges[tool.key].primary_exchange

\* C29 witness: a key of two words, written in upper case, resolved to its
\* title-cased form
C29_Witness ==
    /\ tool.op = "_extract_country_name"
    /\ tool.phrase = <<>>
    /\ tool.user_input = upper(tool.key)
    /\ Contains(tool.key, <<" ">>)
    /\ tool.out.val = title(tool.key)
    /\ tool.out.val # tool.user_input


\* C30: no entry point calls a tool with an empty or blank country name: a
\* query or get_financial_info call whose country is empty calls neither
\* get_currency_info nor get_stock_market_info and returns a failure record.
C30_NoToolCallForAnEmptyCountry ==
    (entry # "none" /\ strip(country) = <<>>) =>
        /\ calls = <<>>
        /\ pc = "idle" => ~ret.success

====
